---- MODULE Spec2Model ----
(***************************************************************************)
(* Pixel-Checker: the credential manager (src/src/api/tokens.py), the      *)
(* remote client (src/src/api/api.py) and the grid scanner                 *)
(* (src/src/scanner/scanner.py) as state machines.                         *)
(*                                                                         *)
(* SpecToken: NCallers coroutines each run api_get_with_refresh once over  *)
(* the process-wide TokenManager.  Every await of the source is a step     *)
(* boundary; the code between two awaits is one atomic step (asyncio).     *)
(*                                                                         *)
(* SpecScan: one pass of scan_canvas.  SpecQueue and SpecQueueLive: the    *)
(* MessageQueue and the TopicManager that drains it.  SpecRate: the        *)
(* RateLimiter and one send_batch_to_topic call after another.  SpecCell:  *)
(* the id of a cell and check_cell's handling of the answer to its request.*)
(* SpecMono: the TopicManager of the single file src/src/bot/              *)
(* topic_manager.py, its lock, its loop and one producer.  SpecSplit:      *)
(* MessageSender._split_messages_into_parts on one batch.                  *)
(***************************************************************************)
EXTENDS Integers, Sequences, FiniteSets, TLC

\* ---------------------------------------------------------------- bounds
NCallers == 2
MaxTime == 1
NCoords == 3
MaxConcurrent == 2
NCategories == 1
MaxRecords == 2
MaxMinBatch == 3
MaxMaxBatch == 2
QMaxTicks == 1
MaxCalls == 2
RMaxTicks == 1
MaxOffset == 1
MaxBatchLen == 3

\* ------------------------------------------------------ program constants
SafetyMargin == 300
DefaultExpiresIn == 3600
max_retries == 2
incomplete_batch_timeout == 120
sender_max_retries == 3
tm_incomplete_batch_timeout == 120
PartSizeLimit == 3500
BASE_ID == 262401
BASE_START == 256
BASE_END == 657
RowStride == 1024
MintCost == 1
PriceScale == 1000000000
LegacyBaseId == 393601
LegacyStart == 384
LegacyEnd == 639

Callers == 1..NCallers
NoExpiry == -1
\* validity durations (seconds) a refresh response or the token file may carry:
\* at the margin (expires at once), one second over it, and the default
ExpiresInValues == {SafetyMargin, SafetyMargin + 1, DefaultExpiresIn}
\* HTTP statuses of the cell endpoint that the client tells apart
Statuses == {200, 401, 500}

VARIABLES
    now,               \* datetime.now(), seconds
    access_token,      \* 0 = None, else the id of the token
    refresh_token,     \* TRUE iff a refresh token is stored
    token_expires_at,  \* NoExpiry = None, else a time
    refresh_lock,      \* 0 = free, else the caller holding _refresh_lock
    refresh_task,      \* 0 = None, else the caller whose task _refresh_task names
    task,              \* per caller: the state of the refresh task it created
    issued,            \* tokens the refresh endpoint has issued so far
    call,              \* per caller: the frame of its api_get_with_refresh call
    \* ---- history of one group of concurrent callers (never read by the code)
    cohort_in, cohort_size, cohort_posts, cohort_refreshed, cohort_dirty,
    \* ---- PixelScanner.scan_canvas, one pass of its while-True loop
    coordinates,        \* the coordinates of the pass, in task order
    retry_errors,       \* the retry_errors argument
    scan_pc,            \* "first", "retry", "sleep" or "done"
    semaphore,          \* free slots of asyncio.Semaphore(max_concurrent)
    tasks,              \* the gathered bounded_check_cell tasks, in order
    processed_results,  \* one CellResult per coordinate
    error_coordinates,  \* coordinates to retry
    retry_attempt,      \* the loop variable of the retry loop
    requests,           \* history: check_cell calls per coordinate in this pass
    ever_ok,            \* history: coordinates with a successful check_cell
    enqueued            \* history: per tracked coordinate, the add_message calls of this pass

VARIABLES
    \* ---- MessageQueue and the TopicManager that drains it
    clock,              \* datetime.now() as the queue reads it, seconds
    min_batch_size,     \* constructor arguments of MessageQueue
    max_batch_size,
    message_queues,     \* per category: the backlog, in arrival order
    queue_keys,         \* the keys of message_queues, in insertion order
    first_message_time, \* per category: NoTime = no entry, else a time
    next_id,            \* history: the id the next PriceMessage gets
    topic_ids,          \* Manager.topic_ids: the categories with a topic id
    running,            \* TopicManager._running
    loop_pc,            \* where the batch loop, or stop() after it, is suspended
    ready_batches,      \* per category: the batch in hand, NoBatch = none
    todo,               \* the categories the for loop has still to visit
    attempt,            \* send attempts made by the running send_batch_to_topic
    sent,               \* the records formatted into the request in flight
    held_at_send,       \* history: the backlog when send_batch_to_topic was called
    last_result,        \* history: how the visit of the last category ended
    drain_pending,      \* history: records the flush of stop() took, not yet handed on
    delivered           \* history: the ids of the records of every batch sent

VARIABLES
    \* ---- RateLimiter and the send_batch_to_topic call in progress
    rtime,              \* the clock (loop.time(), datetime.now()), quarter seconds
    min_send_interval,  \* RateLimiter.min_send_interval, quarter seconds
    max_group_messages_per_minute,
    last_send_time,     \* RateLimiter._last_send_time
    group_message_count,\* RateLimiter._group_message_count
    group_reset_time,   \* RateLimiter._group_reset_time
    consecutive_errors, \* RateLimiter._consecutive_errors
    send_pc,            \* where send_batch_to_topic is suspended, "idle" = no call
    wake_at,            \* when the sleep in progress ends
    send_attempt,       \* the loop variable attempt of send_batch_to_topic
    part,               \* the part of a split batch being sent, from 1
    success_count,      \* _send_large_message_in_parts.success_count
    calls,              \* history: send_batch_to_topic calls made so far
    sent_times,         \* history: when each message of the last minute went out
    forbidden_answer,   \* history: the last request was answered "forbidden"
    large,              \* the batch of the call serialises to more than 4000 bytes
    nparts,             \* the parts _split_messages_into_parts cuts it into
    returned            \* history: what the last send_batch_to_topic call returned

VARIABLES
    \* ---- the TopicManager of the single file src/src/bot/topic_manager.py
    tm_clock,           \* datetime.now(), seconds
    tm_batch_size,      \* TopicManager.batch_size
    tm_message_queues,  \* TopicManager.message_queues: category -> record ids
    tm_keys,            \* the keys of message_queues, in insertion order
    tm_next_id,         \* the id the next record gets
    tm_lock,            \* TopicManager._lock: "free", or held by "loop" / "flush"
    tm_running,         \* TopicManager._running
    tm_pc,              \* where _process_message_queues / stop() is
    tm_todo,            \* the categories the for loop has not visited yet
    tm_first_message_time, \* the local first_message_time of the loop
    tm_current_time,    \* the local current_time of the iteration
    tm_batch,           \* the batch handed to _send_batch_to_topic
    tm_full,            \* the local should_send_full_batch of the batch
    tm_chunk,           \* the index i of the slice flush_all_queues is sending
    add_pc,             \* the producer: "idle", or "blocked" at the lock
    add_msg,            \* the record the blocked producer will append
    add_waited          \* history: the last add_message had to wait for the lock

VARIABLES
    \* ---- one call of MessageSender._split_messages_into_parts
    sp_messages,        \* the argument messages
    sp_parts,           \* the local parts
    sp_current_part,    \* the local current_part
    sp_current_size,    \* the local current_size
    sp_i,               \* the position of the for loop in messages, from 1
    sp_pc               \* "loop", "done" (the parts are returned)

VARIABLES
    \* ---- one check_cell call and a second cell
    grid,               \* which scanner runs: src/src ("config") or src/scanner.py
    cell,               \* <<x, y>> of the cell that is checked
    other,              \* <<x, y>> of another cell of the grid
    cell_id,            \* get_id(x, y) of the cell, a string of digits
    other_id,           \* get_id of the other cell
    canvas_ids,         \* get_canvas_id of the two cells (src/test.py), numbers
    response,           \* what api_get_with_refresh gave: status and body shape
    meta_data,          \* data['metaData'] of the response body
    cost_window,        \* MIN_COST, MAX_COST and EXCLUDE_COSTS of the configuration
    cell_result,        \* the CellResult that is returned
    notified,           \* topic_manager.add_message was called for the cell
    stored,             \* _update_pixel_data wrote the cell to the store
    cell_pc             \* "start", "requested" (the ids are computed), "done"

tokenVars == <<now, access_token, refresh_token, token_expires_at, refresh_lock,
               refresh_task, task, issued, call,
               cohort_in, cohort_size, cohort_posts, cohort_refreshed, cohort_dirty>>

cohortVars == <<cohort_in, cohort_size, cohort_posts, cohort_refreshed, cohort_dirty>>

scanVars == <<coordinates, retry_errors, scan_pc, semaphore, tasks, processed_results,
              error_coordinates, retry_attempt, requests, ever_ok, enqueued>>

queueVars == <<clock, min_batch_size, max_batch_size, message_queues, queue_keys,
               first_message_time, next_id, topic_ids, running, loop_pc,
               ready_batches, todo, attempt, sent, held_at_send, last_result,
               drain_pending, delivered>>

rateVars == <<rtime, min_send_interval, max_group_messages_per_minute, last_send_time,
              sent_times, forbidden_answer,
              group_message_count, group_reset_time, consecutive_errors, send_pc,
              wake_at, send_attempt, part, success_count, calls, large, nparts,
              returned>>

cellVars == <<grid, cell, other, cell_id, other_id, canvas_ids, response, meta_data,
              cost_window, cell_result, notified, stored, cell_pc>>

monoVars == <<tm_clock, tm_batch_size, tm_message_queues, tm_keys, tm_next_id, tm_lock,
              tm_running, tm_pc, tm_todo, tm_first_message_time, tm_current_time,
              tm_batch, tm_full, tm_chunk, add_pc, add_msg, add_waited>>

splitVars == <<sp_messages, sp_parts, sp_current_part, sp_current_size, sp_i, sp_pc>>

vars == <<tokenVars, scanVars, queueVars, rateVars, cellVars, monoVars, splitVars>>

\* what the steps of one component leave alone
outsideToken == <<scanVars, queueVars, rateVars, cellVars, monoVars, splitVars>>
outsideScan == <<tokenVars, queueVars, rateVars, cellVars, monoVars, splitVars>>
outsideQueue == <<tokenVars, scanVars, rateVars, cellVars, monoVars, splitVars>>
outsideRate == <<tokenVars, scanVars, queueVars, cellVars, monoVars, splitVars>>
outsideCell == <<tokenVars, scanVars, queueVars, rateVars, monoVars, splitVars>>
outsideMono == <<tokenVars, scanVars, queueVars, rateVars, cellVars, splitVars>>
outsideSplit == <<tokenVars, scanVars, queueVars, rateVars, cellVars, monoVars>>

\* The frame of one api_get_with_refresh call.  pc: where the coroutine is
\* suspended; phase: 1 = the first get_valid_access_token, 2 = the one after a
\* 401; awaiting: the caller whose task is awaited at tokens.py 85; gets: GET
\* requests issued; tok1, tok2: the token the first / second GET carried;
\* first_status: status of the first GET.  The remaining fields observe the
\* call: posts = refresh POSTs its current get_valid_access_token issued,
\* found = what it found after taking the lock, saw_fail = a refresh failed
\* while it waited for the lock, ret_expired = the token it was handed was
\* expired when handed over.  The frame is dropped when the call returns.
IdleCall == [pc |-> "idle", phase |-> 1, awaiting |-> 0, gets |-> 0, tok1 |-> 0,
             tok2 |-> 0, first_status |-> 0, posts |-> 0, found |-> "none",
             saw_fail |-> FALSE, ret_expired |-> FALSE]

DoneCall == [IdleCall EXCEPT !.pc = "done"]

\* ------------------------------------------------------------ TokenManager

\* _is_token_expired over explicit fields (tokens.py 62-66)
IsExpiredAt(acc, exp, t) == acc = 0 \/ exp = NoExpiry \/ t >= exp

IsTokenExpired == IsExpiredAt(access_token, token_expires_at, now)

TaskDone(w) == task[w] \notin {"created", "posting"}

\* async with self._refresh_lock: the lock is free
CanEnter(w) == refresh_lock = 0

\* the re-check skipped: every caller that gets the lock refreshes
StillExpiredUnderLock_NoRecheck == TRUE

\* tokens.py 79: the re-check after the lock was taken
StillExpiredUnderLock == IsTokenExpired

\* line 83: if self._refresh_task and not self._refresh_task.done()
MustAwaitExisting == refresh_task # 0 /\ ~TaskDone(refresh_task)

\* ---- history bookkeeping of a group of concurrent callers
CohortEnter(w) ==
    IF cohort_in = {}
    THEN /\ cohort_in' = {w}
         /\ cohort_size' = 1
         /\ cohort_posts' = 0
         /\ cohort_refreshed' = FALSE
         /\ cohort_dirty' = FALSE
    ELSE /\ cohort_in' = cohort_in \cup {w}
         /\ cohort_size' = cohort_size + 1
         /\ cohort_dirty' = (cohort_dirty \/ cohort_refreshed)
         /\ UNCHANGED <<cohort_posts, cohort_refreshed>>

CohortLeave(w) ==
    /\ cohort_in' = cohort_in \ {w}
    /\ UNCHANGED <<cohort_size, cohort_posts, cohort_refreshed, cohort_dirty>>

\* the credential is expired again after the group's refresh has completed
CohortDirtied(acc, exp, t, refreshed) ==
    cohort_dirty \/ (cohort_in # {} /\ refreshed /\ IsExpiredAt(acc, exp, t))

\* ---------------------------------------------------- api_get_with_refresh

\* a retry on every status that is not a success
ShouldRetryAnyFailure(s) == s # 200

\* api.py 50: if response.status == 401
ShouldRetry(s) == s = 401

\* get_valid_access_token has returned t to api_get_with_refresh (tokens.py 72):
\* api.py 38-47 on the first call, 59-71 on the call after a 401.  Without a
\* token the call returns (ErrorResponse, or the 401 response) and sends nothing.
Proceed(c, t) ==
    IF t = 0
    THEN DoneCall
    ELSE [c EXCEPT !.pc = "get",
                   !.gets = @ + 1,
                   !.tok1 = IF c.phase = 1 THEN t ELSE @,
                   !.tok2 = IF c.phase = 2 THEN t ELSE @,
                   !.ret_expired = IsTokenExpired]

\* api.py 36 -> tokens.py 68-72: the call starts and asks for a credential.
\* Callers are numbered in the order in which they start.
Call(w) ==
    /\ call[w].pc = "idle"
    /\ \A v \in Callers : v < w => call[v].pc # "idle"
    /\ IF IsTokenExpired
       THEN /\ call' = [call EXCEPT ![w].pc = "lockwait"]
            /\ CohortEnter(w)
       ELSE /\ call' = [call EXCEPT ![w] = Proceed(@, access_token)]
            /\ UNCHANGED cohortVars
    /\ UNCHANGED <<now, access_token, refresh_token, token_expires_at, refresh_lock,
                   refresh_task, task, issued>>
    /\ UNCHANGED outsideToken

\* a refresh without the lock and without the look at _refresh_task: every
\* caller that saw the credential expired starts its own refresh task
AcquireUnguarded(w) ==
    /\ call[w].pc = "lockwait"
    /\ IF ~IsTokenExpired
       THEN /\ call' = [call EXCEPT ![w] = Proceed([@ EXCEPT !.found = "valid"],
                                                   access_token)]
            /\ CohortLeave(w)
            /\ UNCHANGED <<refresh_lock, refresh_task, task>>
       ELSE /\ refresh_lock' = w
            /\ task' = [task EXCEPT ![w] = "created"]
            /\ refresh_task' = w
            /\ call' = [call EXCEPT ![w].pc = "await_task", ![w].found = "expired"]
            /\ UNCHANGED cohortVars
    /\ UNCHANGED <<now, access_token, refresh_token, token_expires_at, issued>>
    /\ UNCHANGED outsideToken

\* tokens.py 76-97 up to the first await inside the lock
Acquire(w) ==
    /\ call[w].pc = "lockwait"
    /\ CanEnter(w)
    /\ IF ~StillExpiredUnderLock
       THEN /\ call' = [call EXCEPT ![w] = Proceed([@ EXCEPT !.found = "valid"],
                                                   access_token)]
            /\ CohortLeave(w)
            /\ UNCHANGED <<refresh_lock, refresh_task, task>>
       ELSE IF MustAwaitExisting
       THEN /\ refresh_lock' = w
            /\ call' = [call EXCEPT ![w].pc = "await_other",
                                    ![w].awaiting = refresh_task]
            /\ UNCHANGED <<refresh_task, task>>
            /\ UNCHANGED cohortVars
       ELSE /\ refresh_lock' = w
            /\ task' = [task EXCEPT ![w] = "created"]
            /\ refresh_task' = w
            /\ call' = [call EXCEPT ![w].pc = "await_task", ![w].found = "expired"]
            /\ UNCHANGED cohortVars
    /\ UNCHANGED <<now, access_token, refresh_token, token_expires_at, issued>>
    /\ UNCHANGED outsideToken

\* _perform_token_refresh up to the POST (tokens.py 99-110); without a refresh
\* token it returns at once (101-103, then the finally of 144-146)
TaskStart(w) ==
    /\ task[w] = "created"
    /\ IF ~refresh_token
       THEN /\ task' = [task EXCEPT ![w] = "done_ok"]
            /\ refresh_task' = 0
            /\ cohort_refreshed' = (cohort_refreshed \/ w \in cohort_in)
            /\ cohort_dirty' = CohortDirtied(access_token, token_expires_at, now,
                                             cohort_refreshed')
            /\ UNCHANGED <<call, cohort_posts>>
       ELSE /\ task' = [task EXCEPT ![w] = "posting"]
            /\ call' = [call EXCEPT ![w].posts = @ + 1]
            /\ cohort_posts' = IF w \in cohort_in THEN cohort_posts + 1 ELSE cohort_posts
            /\ UNCHANGED <<refresh_task, cohort_refreshed, cohort_dirty>>
    /\ UNCHANGED <<now, access_token, refresh_token, token_expires_at, refresh_lock,
                   issued, cohort_in, cohort_size>>
    /\ UNCHANGED outsideToken

\* the refresh endpoint answered 200 with success (tokens.py 111-129, 144-146)
TaskSuccess(w, e) ==
    /\ task[w] = "posting"
    /\ access_token' = issued + 1
    /\ issued' = issued + 1
    /\ refresh_token' = TRUE
    /\ token_expires_at' = now + e - SafetyMargin
    /\ task' = [task EXCEPT ![w] = "done_ok"]
    /\ refresh_task' = 0
    /\ cohort_refreshed' = (cohort_refreshed \/ w \in cohort_in)
    /\ cohort_dirty' = CohortDirtied(access_token', token_expires_at', now,
                                     cohort_refreshed')
    /\ UNCHANGED <<now, refresh_lock, call, cohort_in, cohort_size, cohort_posts>>
    /\ UNCHANGED outsideToken

\* a failed refresh that leaves the credential in place
TaskFailKeepsCredential(w) ==
    /\ task[w] = "posting"
    /\ task' = [task EXCEPT ![w] = "done_err"]
    /\ refresh_task' = 0
    /\ call' = [v \in Callers |->
                  IF call[v].pc = "lockwait"
                  THEN [call[v] EXCEPT !.saw_fail = TRUE] ELSE call[v]]
    /\ cohort_refreshed' = (cohort_refreshed \/ w \in cohort_in)
    /\ cohort_dirty' = CohortDirtied(access_token, token_expires_at, now,
                                     cohort_refreshed')
    /\ UNCHANGED <<now, access_token, token_expires_at, refresh_token, refresh_lock,
                   issued, cohort_in, cohort_size, cohort_posts>>
    /\ UNCHANGED outsideToken

\* the refresh failed: non-200, success false, malformed body or transport
\* error (tokens.py 130-146)
TaskFail(w) ==
    /\ task[w] = "posting"
    /\ access_token' = 0
    /\ token_expires_at' = NoExpiry
    /\ task' = [task EXCEPT ![w] = "done_err"]
    /\ refresh_task' = 0
    /\ call' = [v \in Callers |->
                  IF call[v].pc = "lockwait"
                  THEN [call[v] EXCEPT !.saw_fail = TRUE] ELSE call[v]]
    /\ cohort_refreshed' = (cohort_refreshed \/ w \in cohort_in)
    /\ cohort_dirty' = CohortDirtied(access_token', token_expires_at', now,
                                     cohort_refreshed')
    /\ UNCHANGED <<now, refresh_token, refresh_lock, issued, cohort_in, cohort_size,
                   cohort_posts>>
    /\ UNCHANGED outsideToken

\* the awaited task is done and the caller resumes (tokens.py 85-97, then 72);
\* a failed own task raises through get_valid_access_token and api.py 73-78
AwaitDone(w) ==
    /\ call[w].pc \in {"await_task", "await_other"}
    /\ IF call[w].pc = "await_task"
       THEN /\ TaskDone(w)
            /\ refresh_lock' = 0
            /\ task' = [task EXCEPT ![w] = "none"]
            /\ CohortLeave(w)
            /\ call' = [call EXCEPT ![w] = IF task[w] = "done_err"
                                           THEN DoneCall
                                           ELSE Proceed(@, access_token)]
            /\ UNCHANGED refresh_task
       ELSE /\ TaskDone(call[w].awaiting)
            /\ IF ~IsTokenExpired
               THEN /\ refresh_lock' = 0
                    /\ call' = [call EXCEPT ![w] =
                                  Proceed([@ EXCEPT !.found = "valid", !.awaiting = 0],
                                          access_token)]
                    /\ CohortLeave(w)
                    /\ UNCHANGED <<task, refresh_task>>
               ELSE /\ task' = [task EXCEPT ![w] = "created"]
                    /\ refresh_task' = w
                    /\ call' = [call EXCEPT ![w].pc = "await_task",
                                            ![w].found = "expired",
                                            ![w].awaiting = 0]
                    /\ UNCHANGED refresh_lock
                    /\ UNCHANGED cohortVars
    /\ UNCHANGED <<now, access_token, refresh_token, token_expires_at, issued>>
    /\ UNCHANGED outsideToken

\* the GET came back with status s (api.py 47-71)
Response(w, s) ==
    /\ call[w].pc = "get"
    /\ IF call[w].phase = 1 /\ ShouldRetry(s)
       THEN /\ token_expires_at' = now
            /\ call' = [call EXCEPT ![w].pc = "lockwait",
                                    ![w].phase = 2,
                                    ![w].first_status = s,
                                    ![w].posts = 0,
                                    ![w].found = "none",
                                    ![w].saw_fail = FALSE,
                                    ![w].ret_expired = FALSE]
            /\ CohortEnter(w)
       ELSE /\ call' = [call EXCEPT ![w] = DoneCall]
            /\ UNCHANGED token_expires_at
            /\ UNCHANGED cohortVars
    /\ UNCHANGED <<now, access_token, refresh_token, refresh_lock, refresh_task, task,
                   issued>>
    /\ UNCHANGED outsideToken

\* session.get raised (timeout, connection error): api.py 73-78 re-raises
TransportError(w) ==
    /\ call[w].pc = "get"
    /\ call' = [call EXCEPT ![w] = DoneCall]
    /\ UNCHANGED <<now, access_token, refresh_token, token_expires_at, refresh_lock,
                   refresh_task, task, issued>>
    /\ UNCHANGED cohortVars
    /\ UNCHANGED outsideToken

\* the wall clock advances
Tick ==
    /\ now < MaxTime
    /\ now' = now + 1
    /\ cohort_dirty' = CohortDirtied(access_token, token_expires_at, now + 1,
                                     cohort_refreshed)
    /\ UNCHANGED <<access_token, refresh_token, token_expires_at, refresh_lock,
                   refresh_task, task, issued, call, cohort_in, cohort_size,
                   cohort_posts, cohort_refreshed>>
    /\ UNCHANGED outsideToken

\* TokenManager.__init__ and _load_tokens_from_file (tokens.py 15-44): no file,
\* a file with or without each token, expires_in absent/0 or the default, or a
\* load that raised after the tokens were assigned
LoadedExpiry == {NoExpiry, 0, DefaultExpiresIn - SafetyMargin}

TokenInit ==
    /\ now = 0
    /\ access_token \in {0, 1}
    /\ refresh_token \in BOOLEAN
    /\ token_expires_at \in LoadedExpiry
    /\ refresh_lock = 0
    /\ refresh_task = 0
    /\ task = [w \in Callers |-> "none"]
    /\ issued = 1
    /\ call = [w \in Callers |-> IdleCall]
    /\ cohort_in = {}
    /\ cohort_size = 0
    /\ cohort_posts = 0
    /\ cohort_refreshed = FALSE
    /\ cohort_dirty = FALSE

TokenNext ==
    \/ \E w \in Callers : Call(w)
    \/ \E w \in Callers : Acquire(w)
    \/ \E w \in Callers : TaskStart(w)
    \/ \E w \in Callers, e \in ExpiresInValues : TaskSuccess(w, e)
    \/ \E w \in Callers : TaskFail(w)
    \/ \E w \in Callers : AwaitDone(w)
    \/ \E w \in Callers, s \in Statuses : Response(w, s)
    \/ \E w \in Callers : TransportError(w)
    \/ Tick


\* ------------------------------------------------------------ PixelScanner
\* One pass of scan_canvas (scanner.py 307-413).  A bounded_check_cell task is
\* "pending" until it holds the semaphore, "checking" while check_cell runs,
\* and then carries what gather collects: "ok" (a CellResult that is not
\* ERROR), "err" (a CellResult with status ERROR) or "exc" (an exception).

Cells == 1..NCoords

\* _get_coordinates: distinct index entries of the cell store, shuffled
CoordinateLists ==
    UNION {{q \in [1..n -> Cells] : \A i, j \in 1..n : i # j => q[i] # q[j]} :
           n \in 0..NCoords}

Pending(q) == [i \in 1..Len(q) |-> "pending"]

\* the coordinates the running gather was built from (lines 337, 371)
Current == IF scan_pc = "first" THEN coordinates ELSE error_coordinates

AllTasksDone == \A i \in 1..Len(tasks) : tasks[i] \in {"ok", "err", "exc"}

\* CellResult, reduced to the fields the pass reads or writes
CellResult(xy, status, error) == [xy |-> xy, status |-> status, error |-> error]

\* what a finished task handed to gather, as a CellResult (check_cell 99-133)
ResultOf(xy, t) ==
    IF t = "ok" THEN CellResult(xy, "ok", "none") ELSE CellResult(xy, "error", "msg")

\* what can happen inside one check_cell call: a 200 answer that classifies
\* with a cost outside the notification window, one with a cost inside it
\* (add_message is called, 175-181), no response, a status other than 200, a
\* timeout, a failed credential refresh raised by api_get_with_refresh, any
\* other exception raised before add_message (also while the 200 body is
\* processed), an exception raised after add_message returned (the store
\* update of line 193)
CellEvents == {"ok", "ok_notified", "no_response", "http_error", "timeout",
               "refresh_failure", "exception", "store_failure"}

\* check_cell 96-133: every failure is caught inside check_cell and comes back
\* as a CellResult with status ERROR
check_cell(ev) == IF ev \in {"ok", "ok_notified"} THEN "ok" ELSE "err"

\* _process_successful_response 175-181: the check awaited add_message
Enqueues(ev) == ev \in {"ok_notified", "store_failure"}

\* the coordinates whose add_message calls are counted: one stands for all,
\* check_cell treats every coordinate alike
Tracked == {CHOOSE c \in Cells : TRUE}

\* the semaphore never refuses
SemaphoreAlwaysFree == TRUE

\* async with semaphore (line 326): a slot is free
SemaphoreFree == semaphore > 0

\* line 326-327: the task enters the semaphore and calls check_cell
Admit(i) ==
    /\ scan_pc \in {"first", "retry"}
    /\ i \in 1..Len(tasks)
    /\ tasks[i] = "pending"
    /\ SemaphoreFree
    /\ semaphore' = semaphore - 1
    /\ tasks' = [tasks EXCEPT ![i] = "checking"]
    /\ requests' = [requests EXCEPT ![Current[i]] = @ + 1]
    /\ UNCHANGED <<coordinates, retry_errors, scan_pc, processed_results,
                   error_coordinates, retry_attempt, ever_ok, enqueued>>
    /\ UNCHANGED outsideScan

\* check_cell returned but the task keeps its slot of the semaphore
CheckReturnsKeepingSlot(i, r, enq) ==
    /\ i \in 1..Len(tasks)
    /\ tasks[i] = "checking"
    /\ tasks' = [tasks EXCEPT ![i] = r]
    /\ semaphore' = semaphore
    /\ ever_ok' = IF r = "ok" THEN ever_ok \cup {Current[i]} ELSE ever_ok
    /\ enqueued' = IF enq /\ Current[i] \in Tracked
                   THEN [enqueued EXCEPT ![Current[i]] = @ + 1]
                   ELSE enqueued
    /\ UNCHANGED <<coordinates, retry_errors, scan_pc, processed_results,
                   error_coordinates, retry_attempt, requests>>
    /\ UNCHANGED outsideScan

\* lines 327-329: check_cell returned a CellResult, the slot is released
CheckReturns(i, r, enq) ==
    /\ i \in 1..Len(tasks)
    /\ tasks[i] = "checking"
    /\ tasks' = [tasks EXCEPT ![i] = r]
    /\ semaphore' = semaphore + 1
    /\ ever_ok' = IF r = "ok" THEN ever_ok \cup {Current[i]} ELSE ever_ok
    /\ enqueued' = IF enq /\ Current[i] \in Tracked
                   THEN [enqueued EXCEPT ![Current[i]] = @ + 1]
                   ELSE enqueued
    /\ UNCHANGED <<coordinates, retry_errors, scan_pc, processed_results,
                   error_coordinates, retry_attempt, requests>>
    /\ UNCHANGED outsideScan

\* lines 326-329: an exception left bounded_check_cell, the slot is released
CheckRaises(i) ==
    /\ i \in 1..Len(tasks)
    /\ tasks[i] = "checking"
    /\ tasks' = [tasks EXCEPT ![i] = "exc"]
    /\ semaphore' = semaphore + 1
    /\ UNCHANGED <<coordinates, retry_errors, scan_pc, processed_results,
                   error_coordinates, retry_attempt, requests, ever_ok, enqueued>>
    /\ UNCHANGED outsideScan

\* the first exception or ERROR result ends the pass without results
FirstResultsAbortOnFailure ==
    IF \E i \in 1..Len(tasks) : tasks[i] # "ok"
    THEN <<>>
    ELSE [i \in 1..Len(tasks) |-> ResultOf(coordinates[i], tasks[i])]

\* lines 341-360: the results of the first pass
FirstResults == [i \in 1..Len(tasks) |-> ResultOf(coordinates[i], tasks[i])]

\* retried although the result is no error
FirstErrorsAll == IF retry_errors THEN coordinates ELSE <<>>

RECURSIVE ErrorsFrom(_, _)
ErrorsFrom(i, rs) ==
    IF i > Len(rs) THEN <<>>
    ELSE (IF rs[i].status = "error" THEN <<rs[i].xy>> ELSE <<>>) \o ErrorsFrom(i + 1, rs)

\* lines 355-360: the coordinates whose first result is an error
FirstErrors == IF retry_errors THEN ErrorsFrom(1, FirstResults) ELSE <<>>

\* lines 388-391, 396-399: replace the first entry of the coordinate
RECURSIVE ReplaceFirst(_, _, _, _)
ReplaceFirst(pr, j, xy, r) ==
    IF j > Len(pr) THEN pr
    ELSE IF pr[j].xy = xy THEN [pr EXCEPT ![j] = r]
    ELSE ReplaceFirst(pr, j + 1, xy, r)

\* the result of a retry is appended instead of replacing the earlier one
AppendResult(pr, j, xy, r) == Append(pr, r)

\* the retry result always replaces, whatever the status of the old entry
StoreRetry(pr, j, xy, r) == ReplaceFirst(pr, j, xy, r)

\* lines 374-402: the loop over retry_results; yields the updated
\* processed_results and new_error_coordinates
RECURSIVE RetryFold(_, _, _)
RetryFold(i, pr, ne) ==
    IF i > Len(tasks) THEN [pr |-> pr, ne |-> ne]
    ELSE LET xy == error_coordinates[i]
         IN IF tasks[i] = "exc"
            THEN IF retry_attempt = max_retries - 1
                 THEN RetryFold(i + 1,
                                StoreRetry(pr, 1, xy,
                                           CellResult(xy, "error", "after_retries")),
                                ne)
                 ELSE RetryFold(i + 1, pr, Append(ne, xy))
            ELSE RetryFold(i + 1,
                           StoreRetry(pr, 1, xy, ResultOf(xy, tasks[i])),
                           IF tasks[i] = "err" THEN Append(ne, xy) ELSE ne)

\* lines 338-372 (and 409-413 when nothing is retried): gather of the first
\* pass returned
GatherFirst ==
    /\ scan_pc = "first"
    /\ AllTasksDone
    /\ processed_results' = FirstResults
    /\ error_coordinates' = FirstErrors
    /\ retry_attempt' = 0
    /\ IF retry_errors /\ FirstErrors # <<>> /\ max_retries > 0
       THEN /\ scan_pc' = "retry"
            /\ tasks' = Pending(FirstErrors)
       ELSE /\ scan_pc' = "done"
            /\ tasks' = <<>>
    /\ UNCHANGED <<coordinates, retry_errors, semaphore, requests, ever_ok, enqueued>>
    /\ UNCHANGED outsideScan

\* lines 372-407 (and 409-413): gather of a retry pass returned
GatherRetry ==
    /\ scan_pc = "retry"
    /\ AllTasksDone
    /\ LET f == RetryFold(1, processed_results, <<>>)
       IN /\ processed_results' = f.pr
          /\ error_coordinates' = f.ne
          /\ scan_pc' = IF f.ne # <<>> THEN "sleep" ELSE "done"
    /\ tasks' = <<>>
    /\ UNCHANGED <<coordinates, retry_errors, semaphore, retry_attempt, requests,
                   ever_ok, enqueued>>
    /\ UNCHANGED outsideScan

\* line 407 returned: the next iteration of the retry loop (364-372), or the
\* end of the pass (409-413)
AfterSleep ==
    /\ scan_pc = "sleep"
    /\ IF retry_attempt + 1 < max_retries
       THEN /\ retry_attempt' = retry_attempt + 1
            /\ scan_pc' = "retry"
            /\ tasks' = Pending(error_coordinates)
       ELSE /\ scan_pc' = "done"
            /\ UNCHANGED <<retry_attempt, tasks>>
    /\ UNCHANGED <<coordinates, retry_errors, semaphore, processed_results,
                   error_coordinates, requests, ever_ok, enqueued>>
    /\ UNCHANGED outsideScan

\* lines 307-337: the state when the gather of a pass's first round starts
PassStart ==
    /\ coordinates \in CoordinateLists
    /\ scan_pc = "first"
    /\ semaphore = MaxConcurrent
    /\ tasks = Pending(coordinates)
    /\ processed_results = <<>>
    /\ error_coordinates = <<>>
    /\ retry_attempt = 0
    /\ requests = [c \in Cells |-> 0]
    /\ ever_ok = {}
    /\ enqueued = [c \in Tracked |-> 0]

\* line 307: while True, the next pass
NextPass ==
    /\ scan_pc = "done"
    /\ coordinates' \in CoordinateLists
    /\ scan_pc' = "first"
    /\ semaphore' = MaxConcurrent
    /\ tasks' = Pending(coordinates')
    /\ processed_results' = <<>>
    /\ error_coordinates' = <<>>
    /\ retry_attempt' = 0
    /\ requests' = [c \in Cells |-> 0]
    /\ ever_ok' = {}
    /\ enqueued' = [c \in Tracked |-> 0]
    /\ UNCHANGED retry_errors
    /\ UNCHANGED outsideScan

ScanInit == retry_errors \in BOOLEAN /\ PassStart

ScanNext ==
    \/ \E i \in 1..NCoords : Admit(i)
    \/ \E i \in 1..NCoords, ev \in CellEvents :
          CheckReturns(i, check_cell(ev), Enqueues(ev))
    \/ \E i \in 1..NCoords : CheckRaises(i)
    \/ GatherFirst
    \/ GatherRetry
    \/ AfterSleep
    \/ NextPass

\* ------------------------------------------- MessageQueue and TopicManager
\* (src/src/bot/topic_manager/queue.py, topic_manager.py, manager.py, sender.py)
\*
\* No body of "async with self._lock" in queue.py contains an await, so the
\* lock is free at every suspension point and each queue operation is one
\* atomic step.  The batch loop is suspended in its sleep, in the creation of
\* a topic, in the budget wait of the sender or in a request; producers and
\* stop() run at those points.

Categories == 1..NCategories
NoTime == -1
NoBatch == [alias |-> FALSE, msgs |-> <<>>, none |-> TRUE]
\* the clock is read every TickSeconds seconds
TickSeconds == incomplete_batch_timeout

\* PriceMessage: id stands for (x, y, link), the category is the queue's key
PriceMessage(id, t) == [id |-> id, timestamp |-> t]

Ids(msgs) == {msgs[i].id : i \in 1..Len(msgs)}

IsPrefix(p, q) == Len(p) <= Len(q) /\ \A i \in 1..Len(p) : p[i] = q[i]

\* the batch is the oldest max_batch_size records
get_first_messages(messages) ==
    IF Len(messages) > max_batch_size
    THEN SubSeq(messages, 1, max_batch_size)
    ELSE messages

\* queue.py 149-167: _get_last_messages
get_last_messages(messages) ==
    IF Len(messages) > max_batch_size
    THEN SubSeq(messages, Len(messages) - max_batch_size + 1, Len(messages))
    ELSE messages

\* the size rule with a strict comparison
should_send_full_batch_strict(messages) == Len(messages) > min_batch_size

\* queue.py 103
should_send_full_batch(messages) == Len(messages) >= min_batch_size

\* the category is a key of message_queues
HasKey(c) == \E i \in 1..Len(queue_keys) : queue_keys[i] = c

\* queue.py 94-100: first_message_time of a category after a poll at `clock`
FirstTimeAfterPoll(c) ==
    IF ~HasKey(c)
    THEN first_message_time[c]
    ELSE IF message_queues[c] = <<>> THEN NoTime
    ELSE IF first_message_time[c] = NoTime THEN clock
    ELSE first_message_time[c]

\* queue.py 106-110
should_send_by_timeout(c) ==
    /\ Len(message_queues[c]) > 0
    /\ clock - FirstTimeAfterPoll(c) >= incomplete_batch_timeout

\* queue.py 113: the category gets a batch in this poll
IsReady(c) ==
    /\ message_queues[c] # <<>>
    /\ should_send_full_batch(message_queues[c]) \/ should_send_by_timeout(c)

\* queue.py 114-125: a slice of the backlog on the size rule, the backlog list
\* itself (the same object, alias) on the timeout rule
ReadyBatch(c) ==
    IF ~IsReady(c) THEN NoBatch
    ELSE IF should_send_full_batch(message_queues[c])
    THEN [alias |-> FALSE, msgs |-> get_last_messages(message_queues[c]), none |-> FALSE]
    ELSE [alias |-> TRUE, msgs |-> <<>>, none |-> FALSE]

\* the records a batch in hand holds at this moment
BatchContent(c) ==
    IF ready_batches[c].alias THEN message_queues[c] ELSE ready_batches[c].msgs

RECURSIVE SelectKeys(_, _)
SelectKeys(keys, S) ==
    IF keys = <<>> THEN <<>>
    ELSE (IF Head(keys) \in S THEN <<Head(keys)>> ELSE <<>>) \o SelectKeys(Tail(keys), S)

\* queue.py 47-73: add_message
AddMessage(c) ==
    /\ next_id <= MaxRecords
    /\ message_queues' = [message_queues EXCEPT ![c] = Append(@, PriceMessage(next_id, clock))]
    /\ queue_keys' = IF HasKey(c) THEN queue_keys ELSE Append(queue_keys, c)
    /\ next_id' = next_id + 1
    /\ UNCHANGED <<clock, min_batch_size, max_batch_size, first_message_time,
                   topic_ids, running, drain_pending, delivered, loop_pc, ready_batches, todo, attempt, sent,
                   held_at_send, last_result>>
    /\ UNCHANGED outsideQueue

\* time passes
QueueTick ==
    /\ clock < QMaxTicks * TickSeconds
    /\ clock' = clock + TickSeconds
    /\ UNCHANGED <<min_batch_size, max_batch_size, message_queues, queue_keys,
                   first_message_time, next_id, topic_ids, running, drain_pending, delivered, loop_pc,
                   ready_batches, todo, attempt, sent, held_at_send, last_result>>
    /\ UNCHANGED outsideQueue

\* topic_manager.py 49-56: start(), on a manager that was never started or
\* whose stop() has returned
Start ==
    /\ ~running
    /\ loop_pc \in {"idle", "stopped"}
    /\ running' = TRUE
    /\ loop_pc' = "sleep"
    /\ drain_pending' = {}
    /\ UNCHANGED delivered
    /\ UNCHANGED <<clock, min_batch_size, max_batch_size, message_queues, queue_keys,
                   first_message_time, next_id, topic_ids, ready_batches, todo,
                   attempt, sent, held_at_send, last_result>>
    /\ UNCHANGED outsideQueue

\* topic_manager.py 78-83 -> queue.py 75-127: the loop wakes up and calls
\* get_ready_batches
GetReadyBatches ==
    /\ running
    /\ loop_pc = "sleep"
    /\ first_message_time' = [c \in Categories |-> FirstTimeAfterPoll(c)]
    /\ ready_batches' = [c \in Categories |-> ReadyBatch(c)]
    /\ todo' = SelectKeys(queue_keys, {c \in Categories : IsReady(c)})
    /\ loop_pc' = "iterate"
    /\ last_result' = "none"
    /\ UNCHANGED <<clock, min_batch_size, max_batch_size, message_queues, queue_keys,
                   next_id, topic_ids, running, drain_pending, delivered,
                   attempt, sent, held_at_send>>
    /\ UNCHANGED outsideQueue

\* topic_manager.py 119: the flush of stop() calls send_batch_to_topic with
\* the batch of category c; what is left of the records the flush took
AfterHandover(c) ==
    IF running THEN drain_pending ELSE drain_pending \ Ids(ready_batches[c].msgs)

\* topic_manager.py 83-89 and 116-119 -> manager.py 31-35: the next category
\* of the for loop; a known topic id is returned at once
BeginCategory ==
    /\ loop_pc = "iterate"
    /\ todo # <<>>
    /\ IF Head(todo) \in topic_ids
       THEN /\ loop_pc' = "budget"
            /\ held_at_send' = message_queues[Head(todo)]
            /\ drain_pending' = AfterHandover(Head(todo))
       ELSE /\ loop_pc' = "creating"
            /\ UNCHANGED <<held_at_send, drain_pending>>
    /\ last_result' = "none"
    /\ UNCHANGED <<clock, min_batch_size, max_batch_size, message_queues, queue_keys,
                   first_message_time, next_id, topic_ids, running, delivered,
                   ready_batches, todo, attempt, sent>>
    /\ UNCHANGED outsideQueue

\* the for loop goes on with the next category
NextCategory(c) ==
    /\ todo' = Tail(todo)
    /\ ready_batches' = [ready_batches EXCEPT ![c] = NoBatch]
    /\ loop_pc' = "iterate"
    /\ attempt' = 0
    /\ sent' = <<>>
    /\ held_at_send' = <<>>

\* manager.py 36-58: create_forum_topic answered; on any failure the id is None
\* and the category is skipped (topic_manager.py 85-87, 118)
TopicCreated(ok) ==
    /\ loop_pc = "creating"
    /\ IF ok
       THEN /\ topic_ids' = topic_ids \cup {Head(todo)}
            /\ loop_pc' = "budget"
            /\ held_at_send' = message_queues[Head(todo)]
            /\ drain_pending' = AfterHandover(Head(todo))
            /\ UNCHANGED <<todo, ready_batches, attempt, sent, last_result>>
       ELSE /\ NextCategory(Head(todo))
            /\ last_result' = "unresolved"
            /\ UNCHANGED <<topic_ids, drain_pending>>
    /\ UNCHANGED <<clock, min_batch_size, max_batch_size, message_queues, queue_keys,
                   first_message_time, next_id, running, delivered>>
    /\ UNCHANGED outsideQueue

\* sender.py 31-50: the budget wait is over (or a retry sleep is), the batch is
\* formatted and the request goes out
SendAttempt ==
    /\ loop_pc = "budget"
    /\ sent' = BatchContent(Head(todo))
    /\ attempt' = attempt + 1
    /\ loop_pc' = "inflight"
    /\ UNCHANGED <<clock, min_batch_size, max_batch_size, message_queues, queue_keys,
                   first_message_time, next_id, topic_ids, running, drain_pending, delivered, ready_batches,
                   todo, held_at_send, last_result>>
    /\ UNCHANGED outsideQueue

\* what the notification surface answers to one request; split_ok and
\* split_failed: the batch went through _send_large_message_in_parts and at
\* least one part, or no part, was sent
SendSignals == {"ok", "retry_after", "bad_request", "forbidden", "error",
                "split_ok", "split_failed"}

\* sender.py 37-84: what send_batch_to_topic does with the answer to attempt
\* number att: return True, return False, or try again
SendResult(o, att) ==
    IF o \in {"ok", "split_ok"} THEN "true"
    ELSE IF o \in {"bad_request", "forbidden", "split_failed"} THEN "false"
    ELSE IF att >= sender_max_retries THEN "false"
    ELSE "retry"

\* a failed send clears the category
QueuesAfterFailedSendCleared(c) == [message_queues EXCEPT ![c] = <<>>]

\* topic_manager.py 92-93: nothing is done to the queue after a failed send
QueuesAfterFailedSend(c) == message_queues

\* queue.py 129-147: clear_sent_messages
clear_sent_messages(c) ==
    /\ message_queues' = [message_queues EXCEPT ![c] = <<>>]
    /\ first_message_time' = [first_message_time EXCEPT ![c] = NoTime]

\* sender.py 52-84 and topic_manager.py 89-93, 119: the request is answered.
\* The batch loop clears the category after True; the flush of stop() ignores
\* the result.
SendOutcome(o) ==
    /\ loop_pc = "inflight"
    /\ LET c == Head(todo)
           result == SendResult(o, attempt)
       IN IF result = "retry"
          THEN /\ loop_pc' = "budget"
               /\ sent' = <<>>
               /\ UNCHANGED <<message_queues, first_message_time, last_result, todo,
                              ready_batches, attempt, held_at_send, delivered>>
          ELSE /\ NextCategory(c)
               /\ last_result' = result
               /\ delivered' = IF result = "true" THEN delivered \cup Ids(sent)
                                ELSE delivered
               /\ IF ~running
                  THEN UNCHANGED <<message_queues, first_message_time>>
                  ELSE IF result = "true"
                  THEN clear_sent_messages(c)
                  ELSE /\ message_queues' = QueuesAfterFailedSend(c)
                       /\ UNCHANGED first_message_time
    /\ UNCHANGED <<clock, min_batch_size, max_batch_size, queue_keys, next_id,
                   topic_ids, running, drain_pending>>
    /\ UNCHANGED outsideQueue

\* topic_manager.py 95-103 (the cycle is over, the loop sleeps) and 71-74
\* (the flush is over, stop() closes the session and returns)
EndCycle ==
    /\ loop_pc = "iterate"
    /\ todo = <<>>
    /\ loop_pc' = IF running THEN "sleep" ELSE "stopped"
    /\ last_result' = "none"
    /\ UNCHANGED <<clock, min_batch_size, max_batch_size, message_queues, queue_keys,
                   first_message_time, next_id, topic_ids, running, drain_pending, delivered, ready_batches,
                   todo, attempt, sent, held_at_send>>
    /\ UNCHANGED outsideQueue

\* topic_manager.py 58-69, 105-106: stop() cancels the batch loop where it is
\* suspended and waits for the task to end
Stop ==
    /\ running
    /\ loop_pc \in {"sleep", "creating", "budget", "inflight"}
    /\ running' = FALSE
    /\ loop_pc' = "cancelled"
    /\ ready_batches' = [c \in Categories |-> NoBatch]
    /\ todo' = <<>>
    /\ attempt' = 0
    /\ sent' = <<>>
    /\ held_at_send' = <<>>
    /\ last_result' = "none"
    /\ UNCHANGED <<clock, min_batch_size, max_batch_size, message_queues, queue_keys,
                   first_message_time, next_id, topic_ids, drain_pending, delivered>>
    /\ UNCHANGED outsideQueue

\* topic_manager.py 71, 112-116 -> queue.py 183-205: flush_all_queues takes the
\* last max_batch_size records of every non-empty category and empties it
FlushAllQueues ==
    /\ loop_pc = "cancelled"
    /\ ready_batches' =
           [c \in Categories |->
               IF message_queues[c] # <<>>
               THEN [alias |-> FALSE, msgs |-> get_last_messages(message_queues[c]),
                     none |-> FALSE]
               ELSE NoBatch]
    /\ todo' = SelectKeys(queue_keys, {c \in Categories : message_queues[c] # <<>>})
    /\ message_queues' = [c \in Categories |-> <<>>]
    /\ drain_pending' = UNION {Ids(message_queues[c]) : c \in Categories}
    /\ loop_pc' = "iterate"
    /\ UNCHANGED <<clock, min_batch_size, max_batch_size, queue_keys,
                   first_message_time, next_id, topic_ids, running, delivered,
                   attempt, sent,
                   held_at_send, last_result>>
    /\ UNCHANGED outsideQueue

\* queue.py 25-45, topic_manager.py 17-37, manager.py 16-20: after construction
QueueInit ==
    /\ clock = 0
    /\ min_batch_size \in 1..MaxMinBatch
    /\ max_batch_size \in 1..MaxMaxBatch
    /\ message_queues = [c \in Categories |-> <<>>]
    /\ queue_keys = <<>>
    /\ first_message_time = [c \in Categories |-> NoTime]
    /\ next_id = 1
    /\ topic_ids = {}
    /\ running = FALSE
    /\ loop_pc = "idle"
    /\ ready_batches = [c \in Categories |-> NoBatch]
    /\ todo = <<>>
    /\ attempt = 0
    /\ sent = <<>>
    /\ held_at_send = <<>>
    /\ last_result = "none"
    /\ drain_pending = {}
    /\ delivered = {}

QueueNext ==
    \/ \E c \in Categories : AddMessage(c)
    \/ QueueTick
    \/ Start
    \/ GetReadyBatches
    \/ BeginCategory
    \/ \E ok \in BOOLEAN : TopicCreated(ok)
    \/ SendAttempt
    \/ \E o \in SendSignals : SendOutcome(o)
    \/ EndCycle
    \/ Stop
    \/ FlushAllQueues

\* ------------------------------------------- RateLimiter and MessageSender
\* (src/src/bot/topic_manager/rate_limiter.py, sender.py)
\*
\* One send_batch_to_topic call runs at a time: the batch loop sends batch
\* after batch and stop() flushes only after the loop task has ended.  Times
\* are in quarter seconds, so that 3.0 * 1.5 * 1.5 = 6.75 s is a whole number.

QuarterSeconds(s) == 4 * s

\* rate_limiter.py 11: min_send_interval = 3.0
InitialSendInterval == QuarterSeconds(3)
\* rate_limiter.py 53: the ceiling, 10.0
SendIntervalCeiling == QuarterSeconds(10)
\* rate_limiter.py 33, 38: the window of the group limit, 60 s
GroupWindow == QuarterSeconds(60)
\* rate_limiter.py 12: max_group_messages_per_minute, the default and a small one
GroupLimits == {1, 15}
\* the clock is read every 3 s, and whenever a sleep ends
RateTickStep == QuarterSeconds(3)
\* sender.py 107-134: the numbers of parts a batch is cut into
PartCounts == {1, 2}

\* the budget wait never sleeps
NeedsIntervalWait_Never(since) == FALSE

\* rate_limiter.py 25: if time_since_last < self.min_send_interval
NeedsIntervalWait(since) == since < min_send_interval

\* the interval is doubled
RaisedInterval_Doubled(i) ==
    IF 2 * i > SendIntervalCeiling THEN SendIntervalCeiling ELSE 2 * i

\* rate_limiter.py 53: min(self.min_send_interval * 1.5, 10.0)
RaisedInterval(i) ==
    IF 3 * i > 2 * SendIntervalCeiling THEN SendIntervalCeiling ELSE (3 * i) \div 2

\* a successful send takes the interval back to its initial value
update_after_send_relaxing ==
    /\ last_send_time' = rtime
    /\ sent_times' = Append(SelectSeq(sent_times, LAMBDA t : rtime - t < GroupWindow),
                            rtime)
    /\ group_message_count' = group_message_count + 1
    /\ consecutive_errors' = 0
    /\ min_send_interval' = InitialSendInterval

\* rate_limiter.py 44-48: update_after_send; min_send_interval is not touched
update_after_send ==
    /\ last_send_time' = rtime
    /\ sent_times' = Append(SelectSeq(sent_times, LAMBDA t : rtime - t < GroupWindow),
                            rtime)
    /\ group_message_count' = group_message_count + 1
    /\ consecutive_errors' = 0
    /\ UNCHANGED min_send_interval

\* rate_limiter.py 50-54: handle_error
handle_error ==
    /\ consecutive_errors' = consecutive_errors + 1
    /\ min_send_interval' = RaisedInterval(min_send_interval)

\* nothing has been returned by the call in progress
NoReturn == [value |-> "none", complete |-> FALSE]

\* sender.py 38-50 or 42 -> 93-100: the batch is formatted and a request goes
\* out, for the whole batch or, when it is larger than 4000 bytes, for its
\* first part
StartAttempt(a) ==
    /\ send_attempt' = a
    /\ IF large
       THEN /\ send_pc' = "part_inflight"
            /\ part' = 1
            /\ success_count' = 0
       ELSE /\ send_pc' = "inflight"
            /\ UNCHANGED <<part, success_count>>
    /\ wake_at' = 0

\* rate_limiter.py 20-28: wait_if_needed, then the first attempt (sender.py 37)
WaitIfNeeded ==
    IF NeedsIntervalWait(rtime - last_send_time)
    THEN /\ send_pc' = "interval_sleep"
         /\ wake_at' = rtime + (min_send_interval - (rtime - last_send_time))
         /\ UNCHANGED <<send_attempt, part, success_count>>
    ELSE StartAttempt(0)

\* sender.py 31 -> rate_limiter.py 30-40: send_batch_to_topic is called with a
\* batch that serialises to more than 4000 bytes (big) or not and that
\* _split_messages_into_parts would cut into n parts
SendBatchToTopic(big, n) ==
    /\ send_pc = "idle"
    /\ calls < MaxCalls
    /\ calls' = calls + 1
    /\ large' = big
    /\ nparts' = n
    /\ LET expired == rtime - group_reset_time >= GroupWindow
           count == IF expired THEN 0 ELSE group_message_count
           reset == IF expired THEN rtime ELSE group_reset_time
       IN /\ group_message_count' = count
          /\ group_reset_time' = reset
          /\ IF count >= max_group_messages_per_minute
             THEN /\ send_pc' = "limit_sleep"
                  /\ wake_at' = rtime + (GroupWindow - (rtime - reset))
                  /\ UNCHANGED <<send_attempt, part, success_count>>
             ELSE WaitIfNeeded
    /\ forbidden_answer' = FALSE
    /\ returned' = NoReturn
    /\ UNCHANGED <<rtime, min_send_interval, max_group_messages_per_minute,
                   last_send_time, sent_times, consecutive_errors>>
    /\ UNCHANGED outsideRate

\* rate_limiter.py 40-42 -> 20-28: the sleep of check_group_limit is over
LimitWake ==
    /\ send_pc = "limit_sleep"
    /\ rtime >= wake_at
    /\ group_message_count' = 0
    /\ group_reset_time' = rtime
    /\ WaitIfNeeded
    /\ forbidden_answer' = FALSE
    /\ UNCHANGED returned
    /\ UNCHANGED <<rtime, min_send_interval, max_group_messages_per_minute,
                   last_send_time, sent_times, consecutive_errors, calls, large, nparts>>
    /\ UNCHANGED outsideRate

\* rate_limiter.py 28 -> sender.py 37-50: the sleep of wait_if_needed is over
IntervalWake ==
    /\ send_pc = "interval_sleep"
    /\ rtime >= wake_at
    /\ StartAttempt(0)
    /\ forbidden_answer' = FALSE
    /\ UNCHANGED returned
    /\ UNCHANGED <<rtime, min_send_interval, max_group_messages_per_minute,
                   last_send_time, sent_times, group_message_count, group_reset_time,
                   consecutive_errors, calls, large, nparts>>
    /\ UNCHANGED outsideRate

\* send_batch_to_topic returns `value`; complete: every message it was to send
\* has been sent
Return(value, complete) ==
    /\ returned' = [value |-> IF value THEN "true" ELSE "false", complete |-> complete]
    /\ send_pc' = "idle"
    /\ send_attempt' = 0
    /\ part' = 0
    /\ success_count' = 0
    /\ wake_at' = 0
    /\ large' = FALSE
    /\ nparts' = 0

\* the answers of bot.send_message to the request for a whole batch
BatchAnswers == {"ok", "retry_after", "too_long", "bad_request", "forbidden", "error"}

\* sender.py 44-82: the request for the whole batch is answered
BatchAnswered(o) ==
    /\ send_pc = "inflight"
    /\ CASE o = "ok" ->
              /\ update_after_send
              /\ Return(TRUE, TRUE)
         [] o = "retry_after" ->
              /\ send_pc' = "retry_sleep"
              /\ wake_at' = rtime + RateTickStep
              /\ UNCHANGED <<last_send_time, sent_times, group_message_count, consecutive_errors,
                             min_send_interval, send_attempt, part, success_count,
                             large, nparts, returned>>
         [] o = "too_long" ->
              /\ send_pc' = "part_inflight"
              /\ part' = 1
              /\ success_count' = 0
              /\ wake_at' = 0
              /\ UNCHANGED <<last_send_time, sent_times, group_message_count, consecutive_errors,
                             min_send_interval, send_attempt, large, nparts, returned>>
         [] o \in {"bad_request", "forbidden"} ->
              /\ Return(FALSE, FALSE)
              /\ UNCHANGED <<last_send_time, sent_times, group_message_count, consecutive_errors,
                             min_send_interval>>
         [] o = "error" ->
              /\ IF send_attempt < sender_max_retries - 1
                 THEN /\ send_pc' = "backoff_sleep"
                      /\ wake_at' = rtime + RateTickStep
                      /\ UNCHANGED <<send_attempt, part, success_count, large, nparts,
                                     returned>>
                 ELSE Return(FALSE, FALSE)
              /\ UNCHANGED <<last_send_time, sent_times, group_message_count, consecutive_errors,
                             min_send_interval>>
    /\ forbidden_answer' = (o = "forbidden")
    /\ UNCHANGED <<rtime, max_group_messages_per_minute, group_reset_time, calls>>
    /\ UNCHANGED outsideRate

\* sender.py 59-64: the sleep after a retry-after signal is over
RetryWake ==
    /\ send_pc = "retry_sleep"
    /\ rtime >= wake_at
    /\ handle_error
    /\ IF send_attempt = sender_max_retries - 1
       THEN Return(FALSE, FALSE)
       ELSE /\ StartAttempt(send_attempt + 1)
            /\ UNCHANGED <<large, nparts, returned>>
    /\ forbidden_answer' = FALSE
    /\ UNCHANGED <<rtime, max_group_messages_per_minute, last_send_time, sent_times,
                   group_message_count, group_reset_time, calls>>
    /\ UNCHANGED outsideRate

\* sender.py 78-80: the sleep after an unexpected error is over
BackoffWake ==
    /\ send_pc = "backoff_sleep"
    /\ rtime >= wake_at
    /\ StartAttempt(send_attempt + 1)
    /\ forbidden_answer' = FALSE
    /\ UNCHANGED returned
    /\ UNCHANGED <<rtime, min_send_interval, max_group_messages_per_minute,
                   last_send_time, sent_times, group_message_count, group_reset_time,
                   consecutive_errors, calls, large, nparts>>
    /\ UNCHANGED outsideRate

\* sender.py 96-105: after part number `part`, with `sc` parts sent so far:
\* the pacing sleep before the next part, or the return of success_count > 0
AfterPart(sc) ==
    IF part < nparts
    THEN /\ send_pc' = "pace_sleep"
         /\ wake_at' = rtime + min_send_interval
         /\ part' = part + 1
         /\ success_count' = sc
         /\ UNCHANGED <<send_attempt, large, nparts, returned>>
    ELSE Return(sc > 0, sc = nparts)

\* the answers of bot.send_message to the first request for a part; every
\* exception but TelegramRetryAfter, the forbidden one too, ends in the same
\* except branch (sender.py 170-172)
PartAnswers == {"ok", "retry_after", "forbidden", "error"}

\* sender.py 142-172: the first request for a part is answered
PartAnswered(o) ==
    /\ send_pc = "part_inflight"
    /\ CASE o = "ok" ->
              /\ update_after_send
              /\ AfterPart(success_count + 1)
         [] o = "retry_after" ->
              /\ send_pc' = "part_retry_sleep"
              /\ wake_at' = rtime + RateTickStep
              /\ UNCHANGED <<last_send_time, sent_times, group_message_count, consecutive_errors,
                             min_send_interval, send_attempt, part, success_count,
                             large, nparts, returned>>
         [] o \in {"forbidden", "error"} ->
              /\ AfterPart(success_count)
              /\ UNCHANGED <<last_send_time, sent_times, group_message_count, consecutive_errors,
                             min_send_interval>>
    /\ forbidden_answer' = (o = "forbidden")
    /\ UNCHANGED <<rtime, max_group_messages_per_minute, group_reset_time, calls>>
    /\ UNCHANGED outsideRate

\* sender.py 155-163: the sleep after a retry-after signal for a part is over,
\* the part is sent again
PartRetryWake ==
    /\ send_pc = "part_retry_sleep"
    /\ rtime >= wake_at
    /\ send_pc' = "part_reinflight"
    /\ wake_at' = 0
    /\ forbidden_answer' = FALSE
    /\ UNCHANGED <<rtime, min_send_interval, max_group_messages_per_minute,
                   last_send_time, sent_times, group_message_count, group_reset_time,
                   consecutive_errors, calls, large, nparts, send_attempt, part,
                   success_count, returned>>
    /\ UNCHANGED outsideRate

\* sender.py 157-168: the second request for a part is answered
PartRetryAnswered(ok) ==
    /\ send_pc = "part_reinflight"
    /\ IF ok
       THEN /\ update_after_send
            /\ AfterPart(success_count + 1)
       ELSE /\ AfterPart(success_count)
            /\ UNCHANGED <<last_send_time, sent_times, group_message_count, consecutive_errors,
                           min_send_interval>>
    /\ forbidden_answer' = FALSE
    /\ UNCHANGED <<rtime, max_group_messages_per_minute, group_reset_time, calls>>
    /\ UNCHANGED outsideRate

\* sender.py 97-100: the pacing sleep between two parts is over
PaceWake ==
    /\ send_pc = "pace_sleep"
    /\ rtime >= wake_at
    /\ send_pc' = "part_inflight"
    /\ wake_at' = 0
    /\ forbidden_answer' = FALSE
    /\ UNCHANGED <<rtime, min_send_interval, max_group_messages_per_minute,
                   last_send_time, sent_times, group_message_count, group_reset_time,
                   consecutive_errors, calls, large, nparts, send_attempt, part,
                   success_count, returned>>
    /\ UNCHANGED outsideRate

Sleeping == send_pc \in {"limit_sleep", "interval_sleep", "retry_sleep",
                         "backoff_sleep", "part_retry_sleep", "pace_sleep"}

\* time passes: by one step of the clock, or up to the end of the sleep in
\* progress
RateTick ==
    /\ \/ /\ rtime + RateTickStep <= RMaxTicks * RateTickStep
          /\ rtime' = rtime + RateTickStep
       \/ /\ Sleeping
          /\ wake_at > rtime
          /\ rtime' = wake_at
    /\ UNCHANGED <<min_send_interval, max_group_messages_per_minute, last_send_time,
                   sent_times, forbidden_answer,
                   group_message_count, group_reset_time, consecutive_errors,
                   send_pc, wake_at, send_attempt, part, success_count, calls,
                   large, nparts, returned>>
    /\ UNCHANGED outsideRate

\* rate_limiter.py 10-18: after construction
RateInit ==
    /\ rtime = 0
    /\ min_send_interval = InitialSendInterval
    /\ max_group_messages_per_minute \in GroupLimits
    /\ last_send_time = 0
    /\ group_message_count = 0
    /\ group_reset_time = rtime
    /\ consecutive_errors = 0
    /\ send_pc = "idle"
    /\ wake_at = 0
    /\ send_attempt = 0
    /\ part = 0
    /\ success_count = 0
    /\ calls = 0
    /\ sent_times = <<>>
    /\ forbidden_answer = FALSE
    /\ large = FALSE
    /\ nparts = 0
    /\ returned = NoReturn

RateNext ==
    \/ \E big \in BOOLEAN, n \in PartCounts : SendBatchToTopic(big, n)
    \/ LimitWake
    \/ IntervalWake
    \/ \E o \in BatchAnswers : BatchAnswered(o)
    \/ RetryWake
    \/ BackoffWake
    \/ \E o \in PartAnswers : PartAnswered(o)
    \/ PartRetryWake
    \/ \E ok \in BOOLEAN : PartRetryAnswered(ok)
    \/ PaceWake
    \/ RateTick

\* ------------------------------------------- cell ids and classification
\* (src/src/service/utils.py, src/src/scanner/scanner.py 91-195, src/scanner.py,
\* src/test.py)

\* str(n) of a natural number: its decimal digits, most significant first
RECURSIVE Digits(_)
Digits(n) == IF n < 10 THEN <<n>> ELSE Digits(n \div 10) \o <<n % 10>>

\* int(s) of a string of decimal digits
RECURSIVE Value(_)
Value(d) == IF d = <<>> THEN 0 ELSE 10 * Value(SubSeq(d, 1, Len(d) - 1)) + d[Len(d)]

\* s < t on strings of digits, as Python compares str
RECURSIVE StrLess(_, _)
StrLess(s, t) ==
    IF t = <<>> THEN FALSE
    ELSE IF s = <<>> THEN TRUE
    ELSE IF Head(s) # Head(t) THEN Head(s) < Head(t)
    ELSE StrLess(Tail(s), Tail(t))

\* the rows are packed: the stride is the width of the grid less one
get_id_packed(x, y) ==
    Digits(BASE_ID + (x - BASE_START) + (y - BASE_START) * (BASE_END - BASE_START))

\* utils.py 7-11: get_id
get_id(x, y) == Digits(BASE_ID + (x - BASE_START) + (y - BASE_START) * RowStride)

\* src/scanner.py 59-61: PixelScanner.get_id, base_id 393601 and start 384 (39-41)
PixelScanner_get_id(x, y) ==
    Digits(LegacyBaseId + (x - LegacyStart) + (y - LegacyStart) * RowStride)

\* src/test.py 6-18: get_canvas_id, a number
get_canvas_id(x, y) == LegacyBaseId + (x - LegacyStart) + (y - LegacyStart) * RowStride

\* the cells near the corners of the configured range [BASE_START, BASE_END]
\* (config.py 61-63) and of the range of src/scanner.py (40-43)
GridSample(g) ==
    IF g = "config"
    THEN {BASE_START + k : k \in 0..MaxOffset} \cup {BASE_END - k : k \in 0..MaxOffset}
    ELSE {LegacyStart + k : k \in 0..MaxOffset} \cup {LegacyEnd - k : k \in 0..MaxOffset}

\* the fields of metaData a body may carry; "missing" and NoPrice: no such key
ItemAddresses == {"missing", "", "EQAddress"}
Availabilities == {"missing", "true", "false"}
NoPrice == -1
NullPrice == -2
NextPrices == {NoPrice, NullPrice, 0, 1, 999999999, 1000000000, 1500000000, 2000000000}

\* metaData without any of its keys
EmptyMetaData == [itemAddress |-> "missing", isAvailable |-> "missing",
                  nextPrice |-> NoPrice]

\* what check_cell can get for its request (scanner.py 97-133): no response,
\* a timeout, a status other than 200, or 200 with a body whose metaData is an
\* object, is absent or is null
Responses ==
    {[status |-> st, metaData |-> "missing"] : st \in {"none", "timeout", "404"}}
    \cup {[status |-> "200", metaData |-> m] : m \in {"object", "missing", "null"}}

\* config.py 40-44: MIN_COST, MAX_COST, EXCLUDE_COSTS (the defaults 4, 64 and
\* none, and a window around the prices of NextPrices)
CostWindows == {[min |-> 4, max |-> 64, exclude |-> {}],
                [min |-> 1, max |-> 2, exclude |-> {2}]}

\* a cost: whole units and billionths
Cost(w, f) == [whole |-> w, frac |-> f]

\* the price is divided with //
scaled_price_floor(next_price) == Cost(next_price \div PriceScale, 0)

\* scanner.py 157: cost and cost / 1_000_000_000 (0 stays 0); the quotient is
\* kept exact here, the code has the nearest float
scaled_price(next_price) ==
    IF next_price = 0 THEN Cost(0, 0)
    ELSE Cost(next_price \div PriceScale, next_price % PriceScale)

\* scanner.py 143-162: _process_successful_response, status and cost
process_successful_response(md) ==
    LET item_address == IF md.itemAddress = "missing" THEN "" ELSE md.itemAddress
        is_available == md.isAvailable = "true"
        next_price == IF md.nextPrice = NoPrice THEN 0 ELSE md.nextPrice
    IN IF item_address = ""
       THEN [status |-> IF is_available THEN "FOR_MINT" ELSE "FOR_MINT_NOT_AVAILABLE",
             cost |-> Cost(MintCost, 0)]
       ELSE [status |-> IF is_available THEN "AVAILABLE" ELSE "OCCUPIED",
             cost |-> scaled_price(next_price)]

NoResult == [status |-> "none", cost |-> Cost(0, 0)]

\* scanner.py 101-105, 111-133: CellResult(status=CellStatus.ERROR), no cost
ErrorResult == [status |-> "ERROR", cost |-> Cost(0, 0)]

\* scanner.py 143: data.get('metaData', {})
MetaDataOf(resp, md) == IF resp.metaData = "object" THEN md ELSE EmptyMetaData

\* scanner.py 144, 156-157, 165: None has no get; None is not ordered with a
\* number
Raises(resp, md) ==
    \/ resp.metaData = "null"
    \/ /\ resp.metaData = "object"
       /\ md.itemAddress \notin {"missing", ""}
       /\ md.nextPrice = NullPrice

\* scanner.py 135-162: the classification of a 200 body that does not raise
process_response(resp, md) == process_successful_response(MetaDataOf(resp, md))

\* scanner.py 164-168: MIN_COST <= cost <= MAX_COST and cost not in EXCLUDE_COSTS
InCostWindow(cost, win) ==
    /\ win.min <= cost.whole
    /\ cost.whole < win.max \/ (cost.whole = win.max /\ cost.frac = 0)
    /\ ~(cost.frac = 0 /\ cost.whole \in win.exclude)

\* scanner.py 93 (src/scanner.py 65): check_cell computes the id of its cell;
\* the same is done for the other cell
GetId ==
    /\ cell_pc = "start"
    /\ cell_id' = IF grid = "config" THEN get_id(cell[1], cell[2])
                  ELSE PixelScanner_get_id(cell[1], cell[2])
    /\ other_id' = IF grid = "config" THEN get_id(other[1], other[2])
                   ELSE PixelScanner_get_id(other[1], other[2])
    /\ canvas_ids' = IF grid = "config" THEN canvas_ids
                     ELSE <<get_canvas_id(cell[1], cell[2]),
                            get_canvas_id(other[1], other[2])>>
    /\ cell_pc' = "requested"
    /\ UNCHANGED <<grid, cell, other, response, meta_data, cost_window, cell_result,
                   notified, stored>>
    /\ UNCHANGED outsideCell

\* scanner.py 99-105, 109-124: no response, a timeout or a status other than
\* 200 gives an Error result
CheckCellFails ==
    /\ cell_pc = "requested"
    /\ response.status # "200"
    /\ cell_result' = ErrorResult
    /\ cell_pc' = "done"
    /\ UNCHANGED <<grid, cell, other, cell_id, other_id, canvas_ids, response,
                   meta_data, cost_window, notified, stored>>
    /\ UNCHANGED outsideCell

\* scanner.py 106-108 -> 135-195: the response has status 200 and its body is
\* classified, the record is enqueued when the cost is in the window, and the
\* store is updated; an exception on the way ends in the handler of 125-132
ProcessSuccessfulResponse(store_ok) ==
    /\ cell_pc = "requested"
    /\ response.status = "200"
    /\ IF Raises(response, meta_data)
       THEN /\ cell_result' = ErrorResult
            /\ UNCHANGED <<notified, stored>>
       ELSE LET r == process_response(response, meta_data)
            IN /\ notified' = InCostWindow(r.cost, cost_window)
               /\ stored' = store_ok
               /\ cell_result' = IF store_ok THEN r ELSE ErrorResult
    /\ cell_pc' = "done"
    /\ UNCHANGED <<grid, cell, other, cell_id, other_id, canvas_ids, response,
                   meta_data, cost_window>>
    /\ UNCHANGED outsideCell

CellInit ==
    /\ grid \in {"config", "legacy"}
    /\ cell \in GridSample(grid) \X GridSample(grid)
    /\ other \in GridSample(grid) \X GridSample(grid)
    /\ cell_id = <<>>
    /\ other_id = <<>>
    /\ canvas_ids = <<0, 0>>
    /\ response \in Responses
    /\ meta_data \in [itemAddress : ItemAddresses, isAvailable : Availabilities,
                      nextPrice : NextPrices]
    /\ response.metaData # "object" => meta_data = EmptyMetaData
    /\ cost_window \in CostWindows
    /\ cell_result = NoResult
    /\ notified = FALSE
    /\ stored = FALSE
    /\ cell_pc = "start"

CellNext ==
    \/ GetId
    \/ CheckCellFails
    \/ \E store_ok \in BOOLEAN : ProcessSuccessfulResponse(store_ok)

\* ----------------------------------------- the single-file TopicManager
\* (src/src/bot/topic_manager.py, the module that `from src.bot.topic_manager
\* import TopicManager` of scanner.py 18 resolves to: the directory beside it
\* has no __init__.py).  One lock, TopicManager._lock, and one producer.

\* the batch sizes the manager is built with
TmBatchSizes == 1..MaxMaxBatch

TmHasKey(c) == \E i \in 1..Len(tm_keys) : tm_keys[i] = c

\* 105-106: message_queues.setdefault(price_category, []).append(message)
TmAppended(c, id) == [tm_message_queues EXCEPT ![c] = Append(@, id)]
TmKeysWith(c) == IF TmHasKey(c) THEN tm_keys ELSE Append(tm_keys, c)

\* messages[i:j] of Python
TmSlice(messages, i, j) ==
    SubSeq(messages, i + 1, IF j < Len(messages) THEN j ELSE Len(messages))

\* no record waits for the lock
NoMessage == [category |-> 0, id |-> 0]

\* another coroutine can run: the loop or the flush is at an await, or no
\* such task exists
TmSuspended == tm_pc \notin {"scan", "flush_scan"}

\* 90-107: add_message; the lock is free and the record is appended at once,
\* or the producer waits at `async with self._lock`
TmAddMessage(c) ==
    /\ TmSuspended
    /\ add_pc = "idle"
    /\ tm_next_id <= MaxRecords
    /\ tm_next_id' = tm_next_id + 1
    /\ IF tm_lock = "free"
       THEN /\ tm_message_queues' = TmAppended(c, tm_next_id)
            /\ tm_keys' = TmKeysWith(c)
            /\ add_waited' = FALSE
            /\ UNCHANGED <<add_pc, add_msg>>
       ELSE /\ add_pc' = "blocked"
            /\ add_msg' = [category |-> c, id |-> tm_next_id]
            /\ UNCHANGED <<tm_message_queues, tm_keys, add_waited>>
    /\ UNCHANGED <<tm_clock, tm_batch_size, tm_lock, tm_running, tm_pc, tm_todo,
                   tm_first_message_time, tm_current_time, tm_batch, tm_full, tm_chunk>>
    /\ UNCHANGED outsideMono

\* 105-107: the lock was released and the waiting producer gets it
TmAddResumes ==
    /\ TmSuspended
    /\ add_pc = "blocked"
    /\ tm_lock = "free"
    /\ tm_message_queues' = TmAppended(add_msg.category, add_msg.id)
    /\ tm_keys' = TmKeysWith(add_msg.category)
    /\ add_pc' = "idle"
    /\ add_msg' = NoMessage
    /\ add_waited' = TRUE
    /\ UNCHANGED <<tm_clock, tm_batch_size, tm_next_id, tm_lock, tm_running, tm_pc,
                   tm_todo, tm_first_message_time, tm_current_time, tm_batch, tm_full,
                   tm_chunk>>
    /\ UNCHANGED outsideMono

\* time passes
TmTick ==
    /\ TmSuspended
    /\ tm_clock < QMaxTicks * TickSeconds
    /\ tm_clock' = tm_clock + TickSeconds
    /\ UNCHANGED <<tm_batch_size, tm_message_queues, tm_keys, tm_next_id, tm_lock,
                   tm_running, tm_pc, tm_todo, tm_first_message_time, tm_current_time,
                   tm_batch, tm_full, tm_chunk, add_pc, add_msg, add_waited>>
    /\ UNCHANGED outsideMono

\* 406-413: start(); the task begins with an empty first_message_time (330)
TmStart ==
    /\ ~tm_running
    /\ tm_pc \in {"idle", "stopped"}
    /\ tm_running' = TRUE
    /\ tm_pc' = "top"
    /\ tm_first_message_time' = [c \in Categories |-> NoTime]
    /\ UNCHANGED <<tm_clock, tm_batch_size, tm_message_queues, tm_keys, tm_next_id,
                   tm_lock, tm_todo, tm_current_time, tm_batch, tm_full, tm_chunk,
                   add_pc, add_msg, add_waited>>
    /\ UNCHANGED outsideMono

\* 334-339: the loop reads the time and takes the lock (behind a producer
\* that waits for it)
TmAcquire ==
    /\ tm_pc = "top"
    /\ tm_running
    /\ tm_lock = "free"
    /\ add_pc = "idle"
    /\ tm_lock' = "loop"
    /\ tm_current_time' = tm_clock
    /\ tm_todo' = tm_keys
    /\ tm_pc' = "scan"
    /\ UNCHANGED <<tm_clock, tm_batch_size, tm_message_queues, tm_keys, tm_next_id,
                   tm_running, tm_first_message_time, tm_batch, tm_full, tm_chunk,
                   add_pc, add_msg, add_waited>>
    /\ UNCHANGED outsideMono

\* 340-370: one category of the for loop, under the lock; a ready batch is
\* handed to _send_batch_to_topic, which is awaited
TmVisit ==
    /\ tm_pc = "scan"
    /\ tm_todo # <<>>
    /\ LET c == Head(tm_todo)
           messages == tm_message_queues[c]
           first == IF tm_first_message_time[c] = NoTime THEN tm_current_time
                    ELSE tm_first_message_time[c]
           send_full == Len(messages) >= tm_batch_size
           send_by_timeout ==
               Len(messages) > 0 /\ tm_current_time - first >= tm_incomplete_batch_timeout
       IN IF messages = <<>>
          THEN /\ tm_first_message_time' = [tm_first_message_time EXCEPT ![c] = NoTime]
               /\ tm_todo' = Tail(tm_todo)
               /\ UNCHANGED <<tm_pc, tm_batch, tm_full>>
          ELSE /\ tm_first_message_time' = [tm_first_message_time EXCEPT ![c] = first]
               /\ IF send_full \/ send_by_timeout
                  THEN /\ tm_batch' = IF send_full
                                      THEN TmSlice(messages, 0, tm_batch_size)
                                      ELSE messages
                       /\ tm_full' = send_full
                       /\ tm_pc' = "sending"
                       /\ UNCHANGED tm_todo
                  ELSE /\ tm_todo' = Tail(tm_todo)
                       /\ UNCHANGED <<tm_pc, tm_batch, tm_full>>
    /\ UNCHANGED <<tm_clock, tm_batch_size, tm_message_queues, tm_keys, tm_next_id,
                   tm_lock, tm_running, tm_current_time, tm_chunk, add_pc, add_msg, add_waited>>
    /\ UNCHANGED outsideMono

\* 370-386: _send_batch_to_topic has returned (topic creation, budget and
\* pacing sleeps, the request and its retries are all inside it)
TmSendDone(ok) ==
    /\ tm_pc = "sending"
    /\ LET c == Head(tm_todo)
           messages == tm_message_queues[c]
           rest == IF tm_full THEN TmSlice(messages, tm_batch_size, Len(messages))
                   ELSE <<>>
       IN IF ok
          THEN /\ tm_message_queues' = [tm_message_queues EXCEPT ![c] = rest]
               /\ tm_first_message_time' =
                      [tm_first_message_time EXCEPT
                          ![c] = IF rest = <<>> THEN NoTime ELSE tm_current_time]
          ELSE UNCHANGED <<tm_message_queues, tm_first_message_time>>
    /\ tm_todo' = Tail(tm_todo)
    /\ tm_batch' = <<>>
    /\ tm_pc' = "scan"
    /\ UNCHANGED <<tm_clock, tm_batch_size, tm_keys, tm_next_id, tm_lock, tm_running,
                   tm_current_time, tm_full, tm_chunk, add_pc, add_msg, add_waited>>
    /\ UNCHANGED outsideMono

\* 339 (end of the block), 391-397: the lock is released and the loop sleeps
TmRelease ==
    /\ tm_pc = "scan"
    /\ tm_todo = <<>>
    /\ tm_lock' = "free"
    /\ tm_pc' = "sleep"
    /\ UNCHANGED <<tm_clock, tm_batch_size, tm_message_queues, tm_keys, tm_next_id,
                   tm_running, tm_todo, tm_first_message_time, tm_current_time,
                   tm_batch, tm_full, tm_chunk, add_pc, add_msg, add_waited>>
    /\ UNCHANGED outsideMono

\* 395-397 -> 334: the sleep is over
TmWake ==
    /\ tm_pc = "sleep"
    /\ tm_running
    /\ tm_pc' = "top"
    /\ UNCHANGED <<tm_clock, tm_batch_size, tm_message_queues, tm_keys, tm_next_id,
                   tm_lock, tm_running, tm_todo, tm_first_message_time,
                   tm_current_time, tm_batch, tm_full, tm_chunk, add_pc, add_msg, add_waited>>
    /\ UNCHANGED outsideMono

\* 415-429: stop(); the task is cancelled where it is suspended (leaving the
\* block releases the lock) and flush_all_queues is called
TmStop ==
    /\ tm_running
    /\ TmSuspended
    /\ tm_running' = FALSE
    /\ tm_lock' = "free"
    /\ tm_todo' = <<>>
    /\ tm_batch' = <<>>
    /\ tm_pc' = "flush_wait"
    /\ UNCHANGED <<tm_clock, tm_batch_size, tm_message_queues, tm_keys, tm_next_id,
                   tm_first_message_time, tm_current_time, tm_full, tm_chunk, add_pc,
                   add_msg, add_waited>>
    /\ UNCHANGED outsideMono

\* 435-438: flush_all_queues takes the lock (behind a waiting producer)
TmFlushBegin ==
    /\ tm_pc = "flush_wait"
    /\ tm_lock = "free"
    /\ add_pc = "idle"
    /\ tm_lock' = "flush"
    /\ tm_todo' = tm_keys
    /\ tm_chunk' = 0
    /\ tm_pc' = "flush_scan"
    /\ UNCHANGED <<tm_clock, tm_batch_size, tm_message_queues, tm_keys, tm_next_id,
                   tm_running, tm_first_message_time, tm_current_time, tm_batch,
                   tm_full, add_pc, add_msg, add_waited>>
    /\ UNCHANGED outsideMono

\* 438-442: the next category; its first slice is sent
TmFlushVisit ==
    /\ tm_pc = "flush_scan"
    /\ tm_todo # <<>>
    /\ LET messages == tm_message_queues[Head(tm_todo)]
       IN IF messages = <<>>
          THEN /\ tm_todo' = Tail(tm_todo)
               /\ UNCHANGED <<tm_pc, tm_batch>>
          ELSE /\ tm_batch' = TmSlice(messages, 0, tm_batch_size)
               /\ tm_pc' = "flush_sending"
               /\ UNCHANGED tm_todo
    /\ UNCHANGED <<tm_clock, tm_batch_size, tm_message_queues, tm_keys, tm_next_id,
                   tm_lock, tm_running, tm_first_message_time, tm_current_time,
                   tm_full, tm_chunk, add_pc, add_msg, add_waited>>
    /\ UNCHANGED outsideMono

\* 442-447: the slice was sent (the result is not looked at); a pacing sleep
\* follows if records remain, else the category is emptied
TmFlushSent ==
    /\ tm_pc = "flush_sending"
    /\ LET c == Head(tm_todo)
           messages == tm_message_queues[c]
       IN IF tm_chunk + tm_batch_size < Len(messages)
          THEN /\ tm_pc' = "flush_pacing"
               /\ UNCHANGED <<tm_message_queues, tm_todo, tm_chunk>>
          ELSE /\ tm_message_queues' = [tm_message_queues EXCEPT ![c] = <<>>]
               /\ tm_todo' = Tail(tm_todo)
               /\ tm_chunk' = 0
               /\ tm_pc' = "flush_scan"
    /\ tm_batch' = <<>>
    /\ UNCHANGED <<tm_clock, tm_batch_size, tm_keys, tm_next_id, tm_lock, tm_running,
                   tm_first_message_time, tm_current_time, tm_full, add_pc, add_msg, add_waited>>
    /\ UNCHANGED outsideMono

\* 439-445: the pacing sleep is over and the next slice is sent
TmFlushPaced ==
    /\ tm_pc = "flush_pacing"
    /\ LET messages == tm_message_queues[Head(tm_todo)]
           i == tm_chunk + tm_batch_size
       IN /\ tm_chunk' = i
          /\ tm_batch' = TmSlice(messages, i, i + tm_batch_size)
    /\ tm_pc' = "flush_sending"
    /\ UNCHANGED <<tm_clock, tm_batch_size, tm_message_queues, tm_keys, tm_next_id,
                   tm_lock, tm_running, tm_todo, tm_first_message_time,
                   tm_current_time, tm_full, add_pc, add_msg, add_waited>>
    /\ UNCHANGED outsideMono

\* 437 (end of the block), 430-433: the lock is released and stop() returns
TmFlushEnd ==
    /\ tm_pc = "flush_scan"
    /\ tm_todo = <<>>
    /\ tm_lock' = "free"
    /\ tm_pc' = "stopped"
    /\ UNCHANGED <<tm_clock, tm_batch_size, tm_message_queues, tm_keys, tm_next_id,
                   tm_running, tm_todo, tm_first_message_time, tm_current_time,
                   tm_batch, tm_full, tm_chunk, add_pc, add_msg, add_waited>>
    /\ UNCHANGED outsideMono

\* 27-56: a TopicManager after construction
MonoInit ==
    /\ tm_clock = 0
    /\ tm_batch_size \in TmBatchSizes
    /\ tm_message_queues = [c \in Categories |-> <<>>]
    /\ tm_keys = <<>>
    /\ tm_next_id = 1
    /\ tm_lock = "free"
    /\ tm_running = FALSE
    /\ tm_pc = "idle"
    /\ tm_todo = <<>>
    /\ tm_first_message_time = [c \in Categories |-> NoTime]
    /\ tm_current_time = 0
    /\ tm_batch = <<>>
    /\ tm_full = FALSE
    /\ tm_chunk = 0
    /\ add_pc = "idle"
    /\ add_msg = NoMessage
    /\ add_waited = FALSE

MonoNext ==
    \/ \E c \in Categories : TmAddMessage(c)
    \/ TmAddResumes
    \/ TmTick
    \/ TmStart
    \/ TmAcquire
    \/ TmVisit
    \/ \E ok \in BOOLEAN : TmSendDone(ok)
    \/ TmRelease
    \/ TmWake
    \/ TmStop
    \/ TmFlushBegin
    \/ TmFlushVisit
    \/ TmFlushSent
    \/ TmFlushPaced
    \/ TmFlushEnd

\* ------------------------------------------- splitting a batch in parts
\* (src/src/bot/topic_manager/sender.py 107-134)

\* len(line.encode('utf-8')) + 2 of a record (114-115): records whose lines
\* fill a third, a half, all of the limit and more than the limit
LineSizes == {1200, 1750, PartSizeLimit, PartSizeLimit + 100}

\* the batches _split_messages_into_parts is called with: records numbered in
\* order, each with the size of its line
SplitInputs ==
    UNION {[1..n -> LineSizes] : n \in 0..MaxBatchLen}

SplitMessage(i, size) == [id |-> i, line_size |-> size]

\* the record that does not fit is dropped with the part it closes
split_step_dropping(parts, current_part, current_size, msg) ==
    IF current_size + msg.line_size > PartSizeLimit
    THEN IF current_part # <<>>
         THEN [parts |-> Append(parts, current_part), current_part |-> <<>>,
               current_size |-> 0]
         ELSE [parts |-> Append(parts, <<msg>>), current_part |-> <<>>,
               current_size |-> 0]
    ELSE [parts |-> parts, current_part |-> Append(current_part, msg),
          current_size |-> current_size + msg.line_size]

\* 113-129: the body of the for loop, for one record
split_step(parts, current_part, current_size, msg) ==
    IF current_size + msg.line_size > PartSizeLimit
    THEN IF current_part # <<>>
         THEN [parts |-> Append(parts, current_part), current_part |-> <<msg>>,
               current_size |-> msg.line_size]
         ELSE [parts |-> Append(parts, <<msg>>), current_part |-> <<>>,
               current_size |-> 0]
    ELSE [parts |-> parts, current_part |-> Append(current_part, msg),
          current_size |-> current_size + msg.line_size]

\* 113-129: one iteration of the loop
SplitStep ==
    /\ sp_pc = "loop"
    /\ sp_i <= Len(sp_messages)
    /\ LET r == split_step(sp_parts, sp_current_part, sp_current_size, sp_messages[sp_i])
       IN /\ sp_parts' = r.parts
          /\ sp_current_part' = r.current_part
          /\ sp_current_size' = r.current_size
    /\ sp_i' = sp_i + 1
    /\ UNCHANGED <<sp_messages, sp_pc>>
    /\ UNCHANGED outsideSplit

\* 131-134: the loop is over, the open part is closed and the parts returned
SplitReturn ==
    /\ sp_pc = "loop"
    /\ sp_i > Len(sp_messages)
    /\ sp_parts' = IF sp_current_part # <<>> THEN Append(sp_parts, sp_current_part)
                   ELSE sp_parts
    /\ sp_pc' = "done"
    /\ UNCHANGED <<sp_messages, sp_current_part, sp_current_size, sp_i>>
    /\ UNCHANGED outsideSplit

\* 109-111: _split_messages_into_parts is entered with a batch
SplitInit ==
    /\ \E sizes \in SplitInputs :
          sp_messages = [i \in 1..Len(sizes) |-> SplitMessage(i, sizes[i])]
    /\ sp_parts = <<>>
    /\ sp_current_part = <<>>
    /\ sp_current_size = 0
    /\ sp_i = 1
    /\ sp_pc = "loop"

SplitNext ==
    \/ SplitStep
    \/ SplitReturn

\* ---------------------------------------------------------- specifications

\* no batch is being split
SplitParked ==
    /\ sp_messages = <<>>
    /\ sp_parts = <<>>
    /\ sp_current_part = <<>>
    /\ sp_current_size = 0
    /\ sp_i = 1
    /\ sp_pc = "done"

\* the single-file TopicManager at rest while another component is examined
MonoParked ==
    /\ tm_clock = 0
    /\ tm_batch_size = 1
    /\ tm_message_queues = [c \in Categories |-> <<>>]
    /\ tm_keys = <<>>
    /\ tm_next_id = 1
    /\ tm_lock = "free"
    /\ tm_running = FALSE
    /\ tm_pc = "idle"
    /\ tm_todo = <<>>
    /\ tm_first_message_time = [c \in Categories |-> NoTime]
    /\ tm_current_time = 0
    /\ tm_batch = <<>>
    /\ tm_full = FALSE
    /\ tm_chunk = 0
    /\ add_pc = "idle"
    /\ add_msg = NoMessage
    /\ add_waited = FALSE

\* no cell is being classified
CellParked ==
    /\ grid = "config"
    /\ cell = <<BASE_START, BASE_START>>
    /\ other = <<BASE_START, BASE_START>>
    /\ cell_id = <<>>
    /\ other_id = <<>>
    /\ canvas_ids = <<0, 0>>
    /\ response = [status |-> "none", metaData |-> "missing"]
    /\ meta_data = [itemAddress |-> "missing", isAvailable |-> "missing",
                    nextPrice |-> NoPrice]
    /\ cost_window = [min |-> 4, max |-> 64, exclude |-> {}]
    /\ cell_result = NoResult
    /\ notified = FALSE
    /\ stored = FALSE
    /\ cell_pc = "done"

\* the scanner at rest while the credential manager is examined
ScanParked ==
    /\ coordinates = <<>>
    /\ retry_errors = TRUE
    /\ scan_pc = "done"
    /\ semaphore = MaxConcurrent
    /\ tasks = <<>>
    /\ processed_results = <<>>
    /\ error_coordinates = <<>>
    /\ retry_attempt = 0
    /\ requests = [c \in Cells |-> 0]
    /\ ever_ok = {}
    /\ enqueued = [c \in Tracked |-> 0]

\* the credential manager at rest while the scanner is examined
TokenParked ==
    /\ now = 0
    /\ access_token = 1
    /\ refresh_token = TRUE
    /\ token_expires_at = DefaultExpiresIn - SafetyMargin
    /\ refresh_lock = 0
    /\ refresh_task = 0
    /\ task = [w \in Callers |-> "none"]
    /\ issued = 1
    /\ call = [w \in Callers |-> IdleCall]
    /\ cohort_in = {}
    /\ cohort_size = 0
    /\ cohort_posts = 0
    /\ cohort_refreshed = FALSE
    /\ cohort_dirty = FALSE

\* the queue and its drain loop at rest while another component is examined
QueueParked ==
    /\ clock = 0
    /\ min_batch_size = 1
    /\ max_batch_size = 1
    /\ message_queues = [c \in Categories |-> <<>>]
    /\ queue_keys = <<>>
    /\ first_message_time = [c \in Categories |-> NoTime]
    /\ next_id = 1
    /\ topic_ids = {}
    /\ running = FALSE
    /\ loop_pc = "idle"
    /\ ready_batches = [c \in Categories |-> NoBatch]
    /\ todo = <<>>
    /\ attempt = 0
    /\ sent = <<>>
    /\ held_at_send = <<>>
    /\ last_result = "none"
    /\ drain_pending = {}
    /\ delivered = {}

\* the rate limiter untouched and no send in progress while another
\* component is examined
RateParked ==
    /\ rtime = 0
    /\ min_send_interval = InitialSendInterval
    /\ max_group_messages_per_minute = 15
    /\ last_send_time = 0
    /\ group_message_count = 0
    /\ group_reset_time = 0
    /\ consecutive_errors = 0
    /\ send_pc = "idle"
    /\ wake_at = 0
    /\ send_attempt = 0
    /\ part = 0
    /\ success_count = 0
    /\ calls = 0
    /\ sent_times = <<>>
    /\ forbidden_answer = FALSE
    /\ large = FALSE
    /\ nparts = 0
    /\ returned = NoReturn

TokenSpecInit ==
    TokenInit /\ ScanParked /\ QueueParked /\ RateParked /\ CellParked /\ MonoParked
    /\ SplitParked

ScanSpecInit ==
    ScanInit /\ TokenParked /\ QueueParked /\ RateParked /\ CellParked /\ MonoParked
    /\ SplitParked

QueueSpecInit ==
    QueueInit /\ TokenParked /\ ScanParked /\ RateParked /\ CellParked /\ MonoParked
    /\ SplitParked

RateSpecInit ==
    RateInit /\ TokenParked /\ ScanParked /\ QueueParked /\ CellParked /\ MonoParked
    /\ SplitParked
CellSpecInit ==
    CellInit /\ TokenParked /\ ScanParked /\ QueueParked /\ RateParked /\ MonoParked
    /\ SplitParked

SpecToken == TokenSpecInit /\ [][TokenNext]_vars

SpecScan == ScanSpecInit /\ [][ScanNext]_vars

SpecQueue == QueueSpecInit /\ [][QueueNext]_vars

SpecRate == RateSpecInit /\ [][RateNext]_vars

SpecCell == CellSpecInit /\ [][CellNext]_vars

MonoSpecInit ==
    MonoInit /\ TokenParked /\ ScanParked /\ QueueParked /\ RateParked /\ CellParked
    /\ SplitParked

SplitSpecInit ==
    SplitInit /\ TokenParked /\ ScanParked /\ QueueParked /\ RateParked /\ CellParked
    /\ MonoParked

SpecSplit == SplitSpecInit /\ [][SplitNext]_vars

SpecMono == MonoSpecInit /\ [][MonoNext]_vars

\* The batch loop left running: no stop().  The sleeps of the loop end, an
\* awaited call returns, and the answers of the notification surface that are
\* possible again and again (the topic is created, the request is accepted)
\* do come.
QueueLiveNext ==
    \/ \E c \in Categories : AddMessage(c)
    \/ QueueTick
    \/ Start
    \/ GetReadyBatches
    \/ BeginCategory
    \/ \E ok \in BOOLEAN : TopicCreated(ok)
    \/ SendAttempt
    \/ \E o \in SendSignals : SendOutcome(o)
    \/ EndCycle

QueueFairness ==
    /\ WF_vars(Start)
    /\ WF_vars(GetReadyBatches)
    /\ WF_vars(BeginCategory)
    /\ WF_vars(SendAttempt)
    /\ WF_vars(EndCycle)
    /\ WF_vars(\E ok \in BOOLEAN : TopicCreated(ok))
    /\ WF_vars(\E o \in SendSignals : SendOutcome(o))
    /\ SF_vars(TopicCreated(TRUE))
    /\ SF_vars(SendOutcome("ok"))

SpecQueueLive == QueueSpecInit /\ [][QueueLiveNext]_vars /\ QueueFairness

\* One scan pass under fairness: a task that can enter the semaphore does, a
\* request that is in flight completes or times out (check_cell returns or
\* raises), a gather whose tasks are all done returns and the sleep of line
\* 407 returns.  The pass starts from the coordinates in index order, one list
\* of every length; the order of the list plays no part in the pass.
OrderedLists == {[i \in 1..n |-> i] : n \in 0..NCoords}

ScanLiveInit == ScanInit /\ coordinates \in OrderedLists

ScanLiveSpecInit ==
    ScanLiveInit /\ TokenParked /\ QueueParked /\ RateParked /\ CellParked /\ MonoParked
    /\ SplitParked

ScanLiveNext ==
    \/ \E i \in 1..NCoords : Admit(i)
    \/ \E i \in 1..NCoords, ev \in CellEvents :
          CheckReturns(i, check_cell(ev), Enqueues(ev))
    \/ \E i \in 1..NCoords : CheckRaises(i)
    \/ GatherFirst
    \/ GatherRetry
    \/ AfterSleep

ScanFairness == WF_vars(ScanLiveNext)

SpecScanLive == ScanLiveSpecInit /\ [][ScanLiveNext]_vars /\ ScanFairness

\* ------------------------------------------------------------------ claims

Posting == {w \in Callers : task[w] = "posting"}

\* C1: in every interleaving of concurrent callers of get_valid_access_token
\* at most one refresh POST is in flight at any moment.
C1_SingleFlight == Cardinality(Posting) <= 1

\* a refresh is in flight while another caller, having seen the credential
\* expired, waits for the lock
C1_Witness ==
    \E w, v \in Callers : w # v /\ task[w] = "posting" /\ call[v].pc = "lockwait"

C3_NeverReturnsExpiredToken ==
    \A w \in Callers :
        call[w].pc = "get" =>
            /\ ~(call[w].found = "expired" /\ call[w].posts = 0)
            /\ ~call[w].ret_expired

C5_OneRefreshBeforeRetry ==
    \A w \in Callers :
        (call[w].pc = "get" /\ call[w].phase = 2) => call[w].posts = 1

\* C6: at most two GETs per call; the second only after a 401 on the first and
\* with a re-acquired credential; whatever answers the second GET ends the call.
C6_AtMostOneRetry ==
    \A w \in Callers :
        /\ call[w].gets <= 2
        /\ call[w].gets = 2 =>
               /\ call[w].first_status = 401
               /\ call[w].phase = 2
               /\ call[w].tok2 # 0
               /\ call[w].pc = "get"

\* the second GET of a call is in flight
C6_Witness == \E w \in Callers : call[w].gets = 2

\* C7 as stated: the retried request never carries the token that got the 401.
C7_RetryCarriesNewToken ==
    \A w \in Callers :
        (call[w].pc = "get" /\ call[w].phase = 2) => call[w].tok2 # call[w].tok1

Checking == {i \in 1..Len(tasks) : tasks[i] = "checking"}

\* C8: during a scan pass (first round and every retry round) the number of
\* check_cell calls in progress never exceeds max_concurrent.
C8_BoundedConcurrency ==
    /\ Cardinality(Checking) <= MaxConcurrent
    /\ semaphore >= 0

\* every slot is taken and a further task of a retry round waits for one
C8_Witness ==
    /\ scan_pc = "retry"
    /\ Cardinality(Checking) = MaxConcurrent
    /\ \E i \in 1..Len(tasks) : tasks[i] = "pending"

\* C9: within one pass a coordinate is requested at most 1 + max_retries
\* times, and a coordinate with a non-Error outcome is never requested again.
C9_RetriesOnlyErrors ==
    /\ \A c \in Cells : requests[c] <= 1 + max_retries
    /\ \A i \in 1..Len(tasks) :
           tasks[i] \in {"pending", "checking"} => Current[i] \notin ever_ok

\* a coordinate is in its last permitted request while another, already
\* successful one, is left alone
C9_Witness ==
    /\ scan_pc = "retry"
    /\ \E c \in Cells : requests[c] = 1 + max_retries
    /\ ever_ok # {}

\* the coordinates of the pass, as a set
Scanned == {coordinates[i] : i \in 1..Len(coordinates)}

\* C10: when the pass finishes, processed_results holds exactly one outcome
\* per scanned coordinate; a coordinate that succeeded on any attempt holds the
\* successful outcome, and it holds Error iff all of its attempts failed.
C10_OneOutcomePerCoordinate ==
    scan_pc = "done" =>
        /\ Len(processed_results) = Len(coordinates)
        /\ \A c \in Scanned :
               Cardinality({j \in 1..Len(processed_results) :
                                processed_results[j].xy = c}) = 1
        /\ \A j \in 1..Len(processed_results) :
               /\ processed_results[j].xy \in Scanned
               /\ (processed_results[j].status = "error")
                      <=> (processed_results[j].xy \notin ever_ok)

\* a pass has finished with a coordinate that failed first and succeeded on a
\* retry, and one that failed on every attempt
C10_Witness ==
    /\ scan_pc = "done"
    /\ \E c \in ever_ok : requests[c] >= 2
    /\ \E c \in Scanned : c \notin ever_ok /\ requests[c] = 1 + max_retries

\* C11 as stated: when the pass is over, the outcome of a coordinate that
\* failed on the first round and on every retry round carries the error text
\* annotated with the attempt count, whether its last failure was an ERROR
\* result of check_cell or an exception.
C11_TerminalErrorAnnotated ==
    (scan_pc = "done" /\ retry_errors) =>
        \A j \in 1..Len(processed_results) :
            (/\ processed_results[j].status = "error"
             /\ requests[processed_results[j].xy] = 1 + max_retries)
                => processed_results[j].error = "after_retries"

\* C12: a failed cell check never ends the pass: when the first gather
\* returns, every coordinate of the pass has its own outcome, in task order,
\* Error for a check that returned ERROR or raised, the check's own result
\* otherwise.
C12_FailureNeverAbortsPass ==
    [][(scan_pc = "first" /\ scan_pc' # "first") =>
          /\ Len(processed_results') = Len(coordinates)
          /\ \A i \in 1..Len(coordinates) :
                 /\ processed_results'[i].xy = coordinates[i]
                 /\ (tasks[i] \in {"err", "exc"})
                        <=> (processed_results'[i].status = "error")]_vars

\* the first round is over with an exception, an ERROR result and a success
\* side by side, and the failed coordinates are being retried
C12_Witness ==
    /\ scan_pc = "retry"
    /\ retry_attempt = 0
    /\ \E i, j \in 1..Len(processed_results) :
           /\ processed_results[i].status = "error"
           /\ processed_results[j].status = "ok"
    /\ Len(processed_results) = Len(coordinates)
    /\ Len(error_coordinates) >= 2

\* get_ready_batches has just returned (topic_manager.py 81)
Polled == loop_pc = "sleep" /\ loop_pc' = "iterate"

\* MessageQueue.flush_all_queues has just returned (topic_manager.py 114)
Flushed == loop_pc = "cancelled" /\ loop_pc' = "iterate"

\* the category whose visit is in progress
Visited == Head(todo)

\* the records of msgs that are not in batch, in order
RECURSIVE Remaining(_, _)
Remaining(msgs, batch) ==
    IF msgs = <<>> THEN <<>>
    ELSE (IF Head(msgs).id \in Ids(batch) THEN <<>> ELSE <<Head(msgs)>>)
         \o Remaining(Tail(msgs), batch)

\* C13: when send_batch_to_topic returns False in the batch loop, the step
\* changes no backlog, and the category's backlog is the one it had when the
\* send was called, in the same order, followed by the records added meanwhile.
C13_FailedSendKeepsBacklog ==
    [][(running /\ loop_pc = "inflight" /\ last_result' = "false") =>
          /\ message_queues' = message_queues
          /\ IsPrefix(held_at_send, message_queues'[Visited])
          /\ held_at_send # <<>>]_vars

\* a send has just failed in the batch loop and the backlog, grown by a record
\* added during the send, is still there
C13_Witness ==
    /\ running
    /\ last_result = "false"
    /\ \E c \in Categories :
           /\ Len(message_queues[c]) >= 2
           /\ message_queues[c][Len(message_queues[c])].timestamp > first_message_time[c]

\* C14 as stated: after a successful send in the batch loop the category's
\* backlog is what it was without the records of the sent batch: a record
\* added after get_ready_batches, or one left out of the batch, stays queued.
C14_ClearRemovesExactlySent ==
    [][(running /\ loop_pc = "inflight" /\ last_result' = "true") =>
          message_queues'[Visited] = Remaining(message_queues[Visited], sent)]_vars

\* C15 as stated: a send that returns False, or a destination that cannot be
\* resolved, in the batch loop or in the flush of stop(), leaves every record
\* of the batch in its queue.
C15_FailedSendKeepsRecords ==
    [][(loop_pc \in {"inflight", "creating"} /\ last_result' \in {"false", "unresolved"}) =>
          Ids(IF loop_pc = "inflight" THEN sent ELSE BatchContent(Visited))
              \subseteq Ids(message_queues'[Visited])]_vars

\* C16: a get_ready_batches call returns every category whose backlog has at
\* least min_batch_size records, however recently they were added, and never
\* a category whose backlog is empty.
C16_FullBacklogIsReady ==
    [][Polled =>
          \A c \in Categories :
              /\ (message_queues[c] # <<>> /\ Len(message_queues[c]) >= min_batch_size)
                     => ~ready_batches'[c].none
              /\ message_queues[c] = <<>> => ready_batches'[c].none]_vars

\* a batch formed on the size rule is in hand, every record of it added at the
\* very time of the call
C16_Witness ==
    /\ loop_pc = "iterate"
    /\ running
    /\ \E c \in Categories :
           /\ ~ready_batches[c].none
           /\ ~ready_batches[c].alias
           /\ Len(ready_batches[c].msgs) >= min_batch_size
           /\ \A i \in 1..Len(ready_batches[c].msgs) :
                  ready_batches[c].msgs[i].timestamp = clock

\* C17 as stated: a get_ready_batches call made incomplete_batch_timeout or
\* more after the oldest pending record of a category was added returns that
\* category, also when its backlog is smaller than min_batch_size.
C17_ReadyOnceOldestRecordTimedOut ==
    [][Polled =>
          \A c \in Categories :
              (/\ message_queues[c] # <<>>
               /\ Len(message_queues[c]) < min_batch_size
               /\ clock >= Head(message_queues[c]).timestamp + incomplete_batch_timeout)
                  => ~ready_batches'[c].none]_vars

\* the records a batch holds at the moment it is returned
Returned(c) ==
    IF ready_batches'[c].alias THEN message_queues[c] ELSE ready_batches'[c].msgs

\* b is the backlog q cut to its last max_batch_size records, in order
IsCappedSuffix(b, q) ==
    /\ Len(b) = (IF Len(q) > max_batch_size THEN max_batch_size ELSE Len(q))
    /\ \A i \in 1..Len(b) : b[i] = q[Len(q) - Len(b) + i]

C19_FirstTimeIffNonEmpty ==
    \A c \in Categories :
        (first_message_time[c] # NoTime) <=> (message_queues[c] # <<>>)

\* C20: the budget wait of a send (check_group_limit, then wait_if_needed)
\* never returns before min_send_interval has elapsed since _last_send_time:
\* when the first request of a send_batch_to_topic call goes out, that much
\* time has passed since the last recorded send.
C20_WaitCoversSendInterval ==
    [][(/\ send_pc \in {"idle", "limit_sleep", "interval_sleep"}
        /\ send_pc' \in {"inflight", "part_inflight"})
          => rtime' - last_send_time' >= min_send_interval']_vars

\* the first request of a call goes out exactly min_send_interval after the
\* send recorded by an earlier call, the interval having been raised meanwhile
C20_Witness ==
    /\ send_pc = "inflight"
    /\ send_attempt = 0
    /\ calls >= 2
    /\ last_send_time > 0
    /\ min_send_interval > InitialSendInterval
    /\ rtime - last_send_time = min_send_interval

\* the messages that went out in the 60 seconds that end with the latest one
InLastMinute == {i \in 1..Len(sent_times) : last_send_time - sent_times[i] < GroupWindow}

\* C21 as stated: in no 60-second window do more than
\* max_group_messages_per_minute messages go out, the parts of a split batch
\* and the messages of a retry included.
C21_WindowNeverExceedsCap ==
    Cardinality(InLastMinute) <= max_group_messages_per_minute

\* C22 as stated: every handle_error call doubles min_send_interval up to the
\* ceiling of 10 s, and min_send_interval never exceeds the ceiling.
C22_SignalDoublesInterval ==
    [][/\ consecutive_errors' = consecutive_errors + 1
          => min_send_interval' = IF 2 * min_send_interval > SendIntervalCeiling
                                  THEN SendIntervalCeiling
                                  ELSE 2 * min_send_interval
       /\ min_send_interval' <= SendIntervalCeiling]_vars

\* C22 amended: every handle_error call multiplies min_send_interval by 1.5 up
\* to the ceiling of 10 s; after 3 consecutive calls, and so after 5, the
\* interval is at the ceiling, and it never exceeds the ceiling.
C22_SignalRaisesIntervalByHalf ==
    [][/\ consecutive_errors' = consecutive_errors + 1
          => IF 3 * min_send_interval >= 2 * SendIntervalCeiling
             THEN min_send_interval' = SendIntervalCeiling
             ELSE 2 * min_send_interval' = 3 * min_send_interval
       /\ consecutive_errors' >= 3 => min_send_interval' = SendIntervalCeiling
       /\ min_send_interval' <= SendIntervalCeiling]_vars

\* five rate-limit signals in a row have been reported
C22_Witness ==
    /\ consecutive_errors = 5
    /\ min_send_interval = SendIntervalCeiling

\* C23 as stated: a send_batch_to_topic call makes at most 3 send attempts, and
\* every retry-after signal, for a whole batch or for a part of a split batch,
\* is followed by exactly one handle_error call when its sleep is over.
C23_RetryAfterReportedOnce ==
    [][/\ send_attempt' < sender_max_retries
       /\ (send_pc \in {"retry_sleep", "part_retry_sleep"} /\ send_pc' # send_pc)
          => /\ consecutive_errors' = consecutive_errors + 1
             /\ min_send_interval' = RaisedInterval(min_send_interval)]_vars

\* C24 as stated: when a request of send_batch_to_topic is answered
\* "forbidden", the call returns (False) at once and makes no further send
\* attempt for the batch.
C24_ForbiddenEndsSend ==
    [][(/\ send_pc \in {"inflight", "part_inflight"}
        /\ send_pc' # send_pc
        /\ forbidden_answer')
          => send_pc' = "idle"]_vars

\* C25 as stated: the lifecycle only moves forward along Idle -> Running ->
\* Draining -> Stopped: start() while running and stop() while not running
\* change nothing, and once stop() has returned no start() brings the manager
\* back to Running.
C25_LifecycleOnlyForward ==
    [][/\ loop_pc = "idle" => loop_pc' \in {"idle", "sleep"}
       /\ (running /\ ~running') => loop_pc' = "cancelled"
       /\ loop_pc = "cancelled" => ~running'
       /\ loop_pc = "stopped" => (loop_pc' = "stopped" /\ ~running')]_vars

\* C26 as stated: when stop() has completed, every record that was pending in
\* some category when the drain began has been handed to the Sender in a
\* batch of a send_batch_to_topic call.
C26_DrainHandsOverEveryRecord ==
    loop_pc = "stopped" => drain_pending = {}

\* C27 as stated, for min_batch_size = 1 (every non-empty backlog is ready at
\* every poll): while the batch loop runs and sends eventually succeed, every
\* record added by add_message is eventually in a batch whose send succeeds.
C27_EveryRecordEventuallyDelivered ==
    \A i \in 1..MaxRecords :
        (min_batch_size = 1 /\ i < next_id) ~> (i \in delivered)

\* the largest size the configuration names
LargestConfiguredSize ==
    IF min_batch_size > max_batch_size THEN min_batch_size ELSE max_batch_size

\* C28 as stated, with the larger of min_batch_size and max_batch_size as the
\* constant: no backlog ever holds more records than the configuration names.
C28_BacklogBoundedByConfiguration ==
    \A c \in Categories : Len(message_queues[c]) <= LargestConfiguredSize

\* C29: a 200 response that carries the item address and the availability
\* flag (and, for a non-empty address, the price), and whose handling ran to
\* its end, is classified by the pair
\* (address empty, available): FOR_MINT, FOR_MINT_NOT_AVAILABLE, AVAILABLE or
\* OCCUPIED; the cost is 1 for an empty address and nextPrice / 10^9 otherwise.
C29_ClassifiedByAddressAndAvailability ==
    (/\ cell_pc = "done"
     /\ response = [status |-> "200", metaData |-> "object"]
     /\ stored
     /\ meta_data.itemAddress # "missing"
     /\ meta_data.isAvailable # "missing"
     /\ meta_data.itemAddress # "" => meta_data.nextPrice \notin {NoPrice, NullPrice})
    => LET empty == meta_data.itemAddress = ""
           available == meta_data.isAvailable = "true"
       IN /\ cell_result.status =
                 CASE empty /\ available -> "FOR_MINT"
                   [] empty /\ ~available -> "FOR_MINT_NOT_AVAILABLE"
                   [] ~empty /\ available -> "AVAILABLE"
                   [] OTHER -> "OCCUPIED"
          /\ IF empty
             THEN cell_result.cost = [whole |-> 1, frac |-> 0]
             ELSE /\ cell_result.cost.frac \in 0..(1000000000 - 1)
                  /\ cell_result.cost.whole * 1000000000 + cell_result.cost.frac
                         = meta_data.nextPrice

\* a claimed, available cell with a price of 1.5 units has been classified
C29_Witness ==
    /\ cell_pc = "done"
    /\ stored
    /\ meta_data.itemAddress = "EQAddress"
    /\ meta_data.isAvailable = "true"
    /\ meta_data.nextPrice = 1500000000
    /\ cell_result.status = "AVAILABLE"
    /\ cell_result.cost = [whole |-> 1, frac |-> 500000000]

\* a comes before b in row-major order: lower row, or same row and lower column
RowMajorBefore(a, b) == a[2] < b[2] \/ (a[2] = b[2] /\ a[1] < b[1])

\* C30: over the grid range, get_id gives distinct ids to distinct coordinates
\* and a greater id to the coordinate that comes later in row-major order (as
\* numbers and as the strings it returns); so do PixelScanner.get_id and
\* get_canvas_id over their range.
C30_IdsInjectiveAndRowMajor ==
    cell_pc # "start"
    => /\ cell # other => cell_id # other_id
       /\ RowMajorBefore(cell, other)
          => /\ Value(cell_id) < Value(other_id)
             /\ StrLess(cell_id, other_id)
       /\ grid = "legacy"
          => /\ cell # other => canvas_ids[1] # canvas_ids[2]
             /\ RowMajorBefore(cell, other) => canvas_ids[1] < canvas_ids[2]

\* the last cell of the first row and the first cell of the second row
C30_Witness ==
    /\ cell_pc = "requested"
    /\ grid = "config"
    /\ cell = <<BASE_END, BASE_START>>
    /\ other = <<BASE_START, BASE_START + 1>>
    /\ Value(other_id) - Value(cell_id) = RowStride - (BASE_END - BASE_START)

\* the response is not a well-formed success: not a 200, or a 200 body that
\* lacks metaData, itemAddress or nextPrice
Malformed ==
    \/ response.status # "200"
    \/ response.metaData # "object"
    \/ meta_data.itemAddress = "missing"
    \/ meta_data.nextPrice \in {NoPrice, NullPrice}

\* C31: a cell check whose response is not HTTP 200, or whose 200 body lacks
\* metaData, itemAddress or nextPrice, returns an Error result and does not
\* enqueue a notification record.
C31_MalformedIsError ==
    (cell_pc = "done" /\ Malformed) => (cell_result.status = "ERROR" /\ ~notified)

\* C32: whenever the manager holds an access token it also holds an expiry
\* time, in every state from the load of the token file on.  (That a
\* credential without an expiry counts as expired is IsExpiredAt itself.)
C32_ExpirySetWhenTokenHeld == access_token # 0 => token_expires_at # NoExpiry

\* the loop or the flush waits for I/O: a send (with the topic creation and
\* the budget sleeps inside it) or a pacing sleep
TmInIO == tm_pc \in {"sending", "flush_sending", "flush_pacing"}

\* C33: the queue lock is not held while a send, a topic creation or a pacing
\* sleep is in progress, and a producer's add_message does not wait for the
\* lock during one.
C33_NoLockAcrossIO == TmInIO => (tm_lock = "free" /\ add_pc = "idle")

\* C34: a 401 answer to a request that carried an older access token leaves a
\* newer, unexpired credential as it is (so the second of two workers that
\* get a 401 for the same old token causes no further refresh).
C34_Stale401KeepsNewCredential ==
    [][\A w \in Callers :
          (/\ call[w].pc = "get"
           /\ call[w].phase = 1
           /\ call'[w].phase = 2
           /\ access_token > call[w].tok1
           /\ ~IsTokenExpired)
          => token_expires_at' = token_expires_at]_vars

\* C35: send_batch_to_topic returns True only if every message it was to
\* send (the whole batch, or every part of a split batch) has been sent.
C35_TrueOnlyIfAllSent == returned.value = "true" => returned.complete

\* the parts one after the other
RECURSIVE Concatenated(_)
Concatenated(parts) ==
    IF parts = <<>> THEN <<>> ELSE Head(parts) \o Concatenated(Tail(parts))

\* the sum of the line sizes of a part
RECURSIVE AccumulatedSize(_)
AccumulatedSize(p) ==
    IF p = <<>> THEN 0 ELSE Head(p).line_size + AccumulatedSize(Tail(p))

\* C36: the parts _split_messages_into_parts returns, put one after the other,
\* are the batch it was given; no part is empty; and a part whose accumulated
\* size is over the limit of 3500 is a single record that is over it alone.
C36_SplitPartitionsBatch ==
    sp_pc = "done"
    => /\ Concatenated(sp_parts) = sp_messages
       /\ \A k \in 1..Len(sp_parts) :
             /\ sp_parts[k] # <<>>
             /\ AccumulatedSize(sp_parts[k]) > PartSizeLimit
                => /\ Len(sp_parts[k]) = 1
                   /\ sp_parts[k][1].line_size > PartSizeLimit

\* a batch of three records was cut in two parts, the second one a record
\* that is over the limit alone
C36_Witness ==
    /\ sp_pc = "done"
    /\ Len(sp_messages) = 3
    /\ Len(sp_parts) = 2
    /\ Len(sp_parts[1]) = 2
    /\ AccumulatedSize(sp_parts[2]) > PartSizeLimit

\* the categories whose batch get_ready_batches returned and the loop has not
\* sent yet
InHand == {c \in Categories : running /\ ~ready_batches[c].none
                              /\ \E k \in 1..Len(todo) : todo[k] = c}

\* C37: get_ready_batches leaves every backlog as it was, and a record that
\* add_message appends afterwards does not show up in a batch it returned.
C37_PollKeepsBacklogAndReturnsSnapshot ==
    [][/\ Polled => message_queues' = message_queues
       /\ \A c \in InHand :
             (next_id' = next_id + 1 /\ ready_batches' = ready_batches)
             => BatchContent(c)' = BatchContent(c)]_vars

\* C38: no step lowers min_send_interval and none takes it over the ceiling;
\* a successful send (update_after_send) leaves it as it is and sets
\* _consecutive_errors to 0, so an interval at the ceiling stays there.
C38_IntervalNeverDecreases ==
    [][/\ min_send_interval' >= min_send_interval
       /\ min_send_interval' <= SendIntervalCeiling
       /\ sent_times' # sent_times
          => (consecutive_errors' = 0 /\ min_send_interval' = min_send_interval)]_vars

\* after three failures the interval is at the ceiling, and a later call has
\* sent its batch: the failure count is 0 again, the interval is not
C38_Witness ==
    /\ min_send_interval = SendIntervalCeiling
    /\ consecutive_errors = 0
    /\ returned = [value |-> "true", complete |-> TRUE]
    /\ calls = 2

\* C39: within one scan pass no coordinate has add_message called for it more
\* than once: a coordinate that enqueued a Notification Record is not checked
\* again in that pass, whatever happens in check_cell after the enqueue.
C39_OneNotificationPerCoordinate == \A c \in Tracked : enqueued[c] <= 1

\* C40: every scan pass terminates: from any point of a pass, with every
\* request completing or timing out, the pass reaches the categorization and
\* persistence after its loops (scan_pc = "done"), also when each request fails.
C40_PassTerminates == (scan_pc # "done") ~> (scan_pc = "done")

\* a pass over NCoords coordinates is over, every request of its first round
\* and of each of the max_retries retry rounds has failed
C40_Witness ==
    /\ scan_pc = "done"
    /\ Len(coordinates) = NCoords
    /\ ever_ok = {}
    /\ \A i \in 1..NCoords : requests[coordinates[i]] = 1 + max_retries

====
